---- MODULE Spec2Model ----
(***************************************************************************)
(* otelnet: Telnet client with file-transfer supervision.                  *)
(* State machines of the Telnet Framer and option negotiator (telnet.c),   *)
(* the Kermit receive callback (kermit_client.c) and the transfer          *)
(* supervisor (otelnet.c, transfer.c).                                     *)
(***************************************************************************)
EXTENDS Integers, Sequences, FiniteSets, TLC

(* ---- Telnet protocol bytes (include/telnet.h) ---- *)
TELNET_IAC == 255
TELNET_DONT == 254
TELNET_DO == 253
TELNET_WONT == 252
TELNET_WILL == 251
TELNET_SB == 250
TELNET_AYT == 246
TELNET_SE == 240

TELOPT_BINARY == 0
TELOPT_ECHO == 1
TELOPT_SGA == 3
TELOPT_TTYPE == 24
TELOPT_NAWS == 31
TELOPT_TSPEED == 32
TELOPT_LINEMODE == 34
TELOPT_ENVIRON == 36

TTYPE_IS == 0
TTYPE_SEND == 1
ENV_IS == 0
ENV_SEND == 1
ENV_VAR == 0
ENV_VALUE == 1
LM_MODE == 1
MODE_EDIT == 1
MODE_ACK == 4

BUFFER_SIZE == 4096
SMALL_BUFFER_SIZE == 256

CR == 13
LF == 10
NUL == 0
SOH == 1

Byte == 0..255

(* ---- Small sequence helpers ---- *)
Last(s) == s[Len(s)]

Front(s) == SubSeq(s, 1, Len(s) - 1)

DropFirst(s, n) == SubSeq(s, n + 1, Len(s))

TakeFirst(s, n) == SubSeq(s, 1, n)

IsPrefix(s, t) == Len(s) <= Len(t) /\ SubSeq(t, 1, Len(s)) = s

(* bit test: (v & bit) != 0 for a power-of-two bit *)
BitSet(v, bit) == (v \div bit) % 2 = 1

(* ---- telnet_t ---- *)
(* local_options / remote_options are bool[256]; each is kept as the set  *)
(* of option codes whose entry is true.                                    *)
telnet_init ==
    [ fd_open |-> FALSE,
      state |-> "DATA",
      sb_buffer |-> << >>,
      local_options |-> {TELOPT_BINARY, TELOPT_SGA},
      remote_options |-> {},
      binary_local |-> FALSE, binary_remote |-> FALSE,
      echo_local |-> FALSE, echo_remote |-> FALSE,
      sga_local |-> FALSE, sga_remote |-> FALSE,
      linemode_active |-> FALSE, linemode_edit |-> FALSE,
      binary_mode |-> FALSE, echo_mode |-> FALSE, sga_mode |-> FALSE,
      linemode |-> TRUE,
      ttype_index |-> 0 ]

term_width == 80

term_height == 24

terminal_speed == <<51, 56, 52, 48, 48, 44, 51, 56, 52, 48, 48>>

terminal_types == << <<88, 84, 69, 82, 77>>, <<86, 84, 49, 48, 48>>, <<65, 78, 83, 73>> >>

(* getenv("USER") / getenv("DISPLAY"): the empty sequence stands for unset *)
env_USER == <<117>>

env_DISPLAY == << >>

AYT_RESPONSE ==
    <<13, 10, 91, 77, 111, 100, 101, 109, 66, 114, 105, 100, 103, 101, 58, 32,
      89, 101, 115, 44, 32, 73, 39, 109, 32, 104, 101, 114, 101, 93, 13, 10>>

(* telnet_send_negotiate: three bytes on the wire unless fd < 0 *)
telnet_send_negotiate(t, command, option) ==
    IF t.fd_open THEN <<TELNET_IAC, command, option>> ELSE << >>

RECURSIVE EscapeIAC(_)
EscapeIAC(data) ==
    IF data = << >> THEN << >>
    ELSE (IF data[1] = TELNET_IAC THEN <<TELNET_IAC, TELNET_IAC>> ELSE <<data[1]>>)
         \o EscapeIAC(Tail(data))

(* telnet_send_subnegotiation: IAC SB <data, IAC doubled> IAC SE *)
telnet_send_subnegotiation(t, data) ==
    IF data = << >> \/ ~t.fd_open THEN << >>
    ELSE <<TELNET_IAC, TELNET_SB>> \o EscapeIAC(data) \o <<TELNET_IAC, TELNET_SE>>

telnet_send_naws(t, width, height) ==
    telnet_send_subnegotiation(t,
        <<TELOPT_NAWS, (width \div 256) % 256, width % 256,
          (height \div 256) % 256, height % 256>>)

telnet_update_mode(t) ==
    [t EXCEPT !.binary_mode = t.binary_local \/ t.binary_remote,
              !.sga_mode = t.sga_local \/ t.sga_remote,
              !.echo_mode = t.echo_remote,
              !.linemode = IF t.linemode_active THEN t.linemode_edit
                           ELSE ~(t.echo_remote /\ t.sga_remote)]

WillSupported == {TELOPT_BINARY, TELOPT_SGA, TELOPT_ECHO}

DoSupported == {TELOPT_BINARY, TELOPT_SGA, TELOPT_TTYPE, TELOPT_NAWS,
                TELOPT_TSPEED, TELOPT_ENVIRON, TELOPT_LINEMODE}

(* a negotiator without the state-change check on WILL: it answers every *)
(* WILL for a supported option with DO                                    *)
NegWILL_NoStateCheck(t, option) ==
    IF option \in WillSupported
    THEN [tn |-> [t EXCEPT !.remote_options = @ \cup {option},
                           !.binary_remote = IF option = TELOPT_BINARY THEN TRUE ELSE @,
                           !.sga_remote = IF option = TELOPT_SGA THEN TRUE ELSE @,
                           !.echo_remote = IF option = TELOPT_ECHO THEN TRUE ELSE @],
          sent |-> telnet_send_negotiate(t, TELNET_DO, option)]
    ELSE [tn |-> t, sent |-> telnet_send_negotiate(t, TELNET_DONT, option)]

(* telnet_handle_negotiate: result is the new telnet_t and the bytes sent *)
NegWILL(t, option) ==
    IF option \in WillSupported
    THEN IF option \notin t.remote_options
         THEN [tn |-> [t EXCEPT !.remote_options = @ \cup {option},
                                !.binary_remote = IF option = TELOPT_BINARY THEN TRUE ELSE @,
                                !.sga_remote = IF option = TELOPT_SGA THEN TRUE ELSE @,
                                !.echo_remote = IF option = TELOPT_ECHO THEN TRUE ELSE @],
               sent |-> telnet_send_negotiate(t, TELNET_DO, option)]
         ELSE [tn |-> t, sent |-> << >>]
    ELSE [tn |-> t, sent |-> telnet_send_negotiate(t, TELNET_DONT, option)]

(* a negotiator without the state-change check on WONT: it answers every *)
(* WONT with DONT                                                         *)
NegWONT_Always(t, option) ==
    [tn |-> [t EXCEPT !.remote_options = @ \ {option},
                      !.binary_remote = IF option = TELOPT_BINARY THEN FALSE ELSE @,
                      !.sga_remote = IF option = TELOPT_SGA THEN FALSE ELSE @,
                      !.echo_remote = IF option = TELOPT_ECHO THEN FALSE ELSE @,
                      !.linemode_active = IF option = TELOPT_LINEMODE THEN FALSE ELSE @],
     sent |-> telnet_send_negotiate(t, TELNET_DONT, option)]

NegWONT(t, option) ==
    IF option \in t.remote_options
    THEN [tn |-> [t EXCEPT !.remote_options = @ \ {option},
                           !.binary_remote = IF option = TELOPT_BINARY THEN FALSE ELSE @,
                           !.sga_remote = IF option = TELOPT_SGA THEN FALSE ELSE @,
                           !.echo_remote = IF option = TELOPT_ECHO THEN FALSE ELSE @,
                           !.linemode_active = IF option = TELOPT_LINEMODE THEN FALSE ELSE @],
          sent |-> telnet_send_negotiate(t, TELNET_DONT, option)]
    ELSE [tn |-> t, sent |-> << >>]

NegDO(t, option) ==
    IF option \in DoSupported
    THEN IF option \notin t.local_options
         THEN [tn |-> [t EXCEPT !.local_options = @ \cup {option},
                                !.binary_local = IF option = TELOPT_BINARY THEN TRUE ELSE @,
                                !.sga_local = IF option = TELOPT_SGA THEN TRUE ELSE @,
                                !.linemode_active = IF option = TELOPT_LINEMODE THEN TRUE ELSE @],
               sent |-> telnet_send_negotiate(t, TELNET_WILL, option)
                        \o (IF option = TELOPT_NAWS
                            THEN telnet_send_naws(t, term_width, term_height)
                            ELSE << >>)]
         ELSE [tn |-> t, sent |-> << >>]
    ELSE [tn |-> t, sent |-> telnet_send_negotiate(t, TELNET_WONT, option)]

NegDONT(t, option) ==
    IF option \in t.local_options
    THEN [tn |-> [t EXCEPT !.local_options = @ \ {option},
                           !.binary_local = IF option = TELOPT_BINARY THEN FALSE ELSE @,
                           !.sga_local = IF option = TELOPT_SGA THEN FALSE ELSE @,
                           !.linemode_active = IF option = TELOPT_LINEMODE THEN FALSE ELSE @],
          sent |-> telnet_send_negotiate(t, TELNET_WONT, option)]
    ELSE [tn |-> t, sent |-> << >>]

telnet_handle_negotiate(t, command, option) ==
    LET r == CASE command = TELNET_WILL -> NegWILL(t, option)
               [] command = TELNET_WONT -> NegWONT(t, option)
               [] command = TELNET_DO -> NegDO(t, option)
               [] command = TELNET_DONT -> NegDONT(t, option)
               [] OTHER -> [tn |-> t, sent |-> << >>]
    IN  IF command \in {TELNET_WILL, TELNET_WONT, TELNET_DO, TELNET_DONT}
        THEN [tn |-> telnet_update_mode(r.tn), sent |-> r.sent]
        ELSE r

(* telnet_handle_subnegotiation: acts on tn.sb_buffer; result is the new  *)
(* telnet_t and the bytes sent                                             *)
(* a TTYPE handler that does not advance the cycle *)
SubnegTTYPE_NoAdvance(t) ==
    IF Len(t.sb_buffer) >= 2 /\ t.sb_buffer[2] = TTYPE_SEND
    THEN [tn |-> t,
          sent |-> telnet_send_subnegotiation(t,
                       <<TELOPT_TTYPE, TTYPE_IS>> \o terminal_types[(t.ttype_index % 3) + 1])]
    ELSE [tn |-> t, sent |-> << >>]

SubnegTTYPE(t) ==
    IF Len(t.sb_buffer) >= 2 /\ t.sb_buffer[2] = TTYPE_SEND
    THEN [tn |-> [t EXCEPT !.ttype_index = @ + 1],
          sent |-> telnet_send_subnegotiation(t,
                       <<TELOPT_TTYPE, TTYPE_IS>> \o terminal_types[(t.ttype_index % 3) + 1])]
    ELSE [tn |-> t, sent |-> << >>]

SubnegTSPEED(t) ==
    IF Len(t.sb_buffer) >= 2 /\ t.sb_buffer[2] = TTYPE_SEND
    THEN [tn |-> t,
          sent |-> telnet_send_subnegotiation(t, <<TELOPT_TSPEED, TTYPE_IS>> \o terminal_speed)]
    ELSE [tn |-> t, sent |-> << >>]

EnvEntry(name, value) ==
    IF Len(value) > 0 /\ Len(value) < 64
    THEN <<ENV_VAR>> \o name \o <<ENV_VALUE>> \o value
    ELSE << >>

SubnegENVIRON(t) ==
    IF Len(t.sb_buffer) >= 2 /\ t.sb_buffer[2] = ENV_SEND
    THEN LET response == <<TELOPT_ENVIRON, ENV_IS>>
                         \o EnvEntry(<<85, 83, 69, 82>>, env_USER)
                         \o EnvEntry(<<68, 73, 83, 80, 76, 65, 89>>, env_DISPLAY)
         IN  [tn |-> t,
              sent |-> IF Len(response) > 2 THEN telnet_send_subnegotiation(t, response)
                       ELSE << >>]
    ELSE [tn |-> t, sent |-> << >>]

SubnegLINEMODE(t) ==
    IF Len(t.sb_buffer) >= 3 /\ t.sb_buffer[2] = LM_MODE
    THEN LET mode == t.sb_buffer[3]
             t1 == [t EXCEPT !.linemode_edit = BitSet(mode, MODE_EDIT)]
         IN  [tn |-> IF t1.linemode_edit # t.linemode_edit THEN telnet_update_mode(t1) ELSE t1,
              sent |-> IF BitSet(mode, MODE_ACK)
                       THEN telnet_send_subnegotiation(t, <<TELOPT_LINEMODE, LM_MODE, mode>>)
                       ELSE << >>]
    ELSE [tn |-> t, sent |-> << >>]

telnet_handle_subnegotiation(t) ==
    IF Len(t.sb_buffer) < 1 THEN [tn |-> t, sent |-> << >>]
    ELSE CASE t.sb_buffer[1] = TELOPT_TTYPE -> SubnegTTYPE(t)
           [] t.sb_buffer[1] = TELOPT_TSPEED -> SubnegTSPEED(t)
           [] t.sb_buffer[1] = TELOPT_ENVIRON -> SubnegENVIRON(t)
           [] t.sb_buffer[1] = TELOPT_LINEMODE -> SubnegLINEMODE(t)
           [] OTHER -> [tn |-> t, sent |-> << >>]

(* telnet_send: the bytes go to the socket as given *)
telnet_send(t, data) == IF t.fd_open THEN data ELSE << >>

(* ---- Framer: telnet_process_input ---- *)
(* The loop state r carries the telnet_t, the clean output written so far *)
(* (out, at most output_size bytes), the bytes sent in reply, and the     *)
(* negotiation / subnegotiation events dispatched.                         *)
Emit(r, c, output_size) ==
    IF Len(r.out) < output_size THEN [r EXCEPT !.out = Append(@, c)] ELSE r

(* a variant that appends to the scratch buffer whatever its length *)
SbAppend_NoLimit(r, c) ==
    [r EXCEPT !.tn.sb_buffer = Append(@, c)]

SbAppend(r, c) ==
    IF Len(r.tn.sb_buffer) < BUFFER_SIZE
    THEN [r EXCEPT !.tn.sb_buffer = Append(@, c)] ELSE r

FrameDATA(r, c, output_size) ==
    IF c = TELNET_IAC THEN [r EXCEPT !.tn.state = "IAC"]
    ELSE IF c = CR /\ ~r.tn.binary_remote THEN [r EXCEPT !.tn.state = "SEENCR"]
    ELSE Emit(r, c, output_size)

FrameIAC(r, c, output_size) ==
    CASE c = TELNET_IAC -> [Emit(r, TELNET_IAC, output_size) EXCEPT !.tn.state = "DATA"]
      [] c = TELNET_WILL -> [r EXCEPT !.tn.state = "WILL"]
      [] c = TELNET_WONT -> [r EXCEPT !.tn.state = "WONT"]
      [] c = TELNET_DO -> [r EXCEPT !.tn.state = "DO"]
      [] c = TELNET_DONT -> [r EXCEPT !.tn.state = "DONT"]
      [] c = TELNET_SB -> [r EXCEPT !.tn.state = "SB", !.tn.sb_buffer = << >>]
      [] c = TELNET_AYT -> [r EXCEPT !.tn.state = "DATA",
                                     !.sent = @ \o telnet_send(r.tn, AYT_RESPONSE)]
      [] OTHER -> [r EXCEPT !.tn.state = "DATA"]

FrameNegotiate(r, command, c) ==
    LET h == telnet_handle_negotiate(r.tn, command, c)
    IN  [r EXCEPT !.tn = [h.tn EXCEPT !.state = "DATA"],
                  !.sent = @ \o h.sent,
                  !.events = Append(@, <<command, c>>)]

FrameSB(r, c) ==
    IF c = TELNET_IAC THEN [r EXCEPT !.tn.state = "SB_IAC"] ELSE SbAppend(r, c)

(* SB_IAC handling that keeps both bytes of a doubled IAC in the payload *)
FrameSB_IAC_KeepEscape(r, c) ==
    IF c = TELNET_SE
    THEN LET h == telnet_handle_subnegotiation(r.tn)
         IN  [r EXCEPT !.tn = [h.tn EXCEPT !.state = "DATA", !.sb_buffer = << >>],
                       !.sent = @ \o h.sent,
                       !.events = Append(@, <<TELNET_SB>> \o r.tn.sb_buffer)]
    ELSE [SbAppend(SbAppend(r, TELNET_IAC), c) EXCEPT !.tn.state = "SB"]

FrameSB_IAC(r, c) ==
    IF c = TELNET_SE
    THEN LET h == telnet_handle_subnegotiation(r.tn)
         IN  [r EXCEPT !.tn = [h.tn EXCEPT !.state = "DATA", !.sb_buffer = << >>],
                       !.sent = @ \o h.sent,
                       !.events = Append(@, <<TELNET_SB>> \o r.tn.sb_buffer)]
    ELSE [SbAppend(r, c) EXCEPT !.tn.state = "SB"]

(* SEENCR handling that passes the NUL after a CR on as data *)
FrameSEENCR_KeepNUL(r, c, output_size) ==
    CASE c = LF -> [(IF Len(r.out) + 1 < output_size
                     THEN [r EXCEPT !.out = @ \o <<CR, LF>>]
                     ELSE Emit(r, CR, output_size)) EXCEPT !.tn.state = "DATA"]
      [] c = TELNET_IAC -> [Emit(r, CR, output_size) EXCEPT !.tn.state = "IAC"]
      [] OTHER -> [Emit(Emit(r, CR, output_size), c, output_size) EXCEPT !.tn.state = "DATA"]

FrameSEENCR(r, c, output_size) ==
    CASE c = NUL -> [Emit(r, CR, output_size) EXCEPT !.tn.state = "DATA"]
      [] c = LF -> [(IF Len(r.out) + 1 < output_size
                     THEN [r EXCEPT !.out = @ \o <<CR, LF>>]
                     ELSE Emit(r, CR, output_size)) EXCEPT !.tn.state = "DATA"]
      [] c = TELNET_IAC -> [Emit(r, CR, output_size) EXCEPT !.tn.state = "IAC"]
      [] OTHER -> [Emit(Emit(r, CR, output_size), c, output_size) EXCEPT !.tn.state = "DATA"]

FrameByte(r, c, output_size) ==
    CASE r.tn.state = "DATA" -> FrameDATA(r, c, output_size)
      [] r.tn.state = "IAC" -> FrameIAC(r, c, output_size)
      [] r.tn.state = "WILL" -> FrameNegotiate(r, TELNET_WILL, c)
      [] r.tn.state = "WONT" -> FrameNegotiate(r, TELNET_WONT, c)
      [] r.tn.state = "DO" -> FrameNegotiate(r, TELNET_DO, c)
      [] r.tn.state = "DONT" -> FrameNegotiate(r, TELNET_DONT, c)
      [] r.tn.state = "SB" -> FrameSB(r, c)
      [] r.tn.state = "SB_IAC" -> FrameSB_IAC(r, c)
      [] r.tn.state = "SEENCR" -> FrameSEENCR(r, c, output_size)
      [] OTHER -> [r EXCEPT !.tn.state = "DATA"]

RECURSIVE FrameLoop(_, _, _)
FrameLoop(r, input, output_size) ==
    IF input = << >> THEN r
    ELSE FrameLoop(FrameByte(r, input[1], output_size), Tail(input), output_size)

(* a Framer that forgets a pending CR between calls *)
telnet_process_input_ForgetCR(t, input, output_size) ==
    FrameLoop([tn |-> [t EXCEPT !.state = IF @ = "SEENCR" THEN "DATA" ELSE @],
               out |-> << >>, sent |-> << >>, events |-> << >>],
              input, output_size)

telnet_process_input(t, input, output_size) ==
    FrameLoop([tn |-> t, out |-> << >>, sent |-> << >>, events |-> << >>],
              input, output_size)

(* telnet_connect: the socket is open and the initial offers are sent;    *)
(* neither the registry nor the flags change                              *)
telnet_connect(t) ==
    LET c == [t EXCEPT !.fd_open = TRUE]
    IN  [tn |-> c,
         sent |-> telnet_send_negotiate(c, TELNET_WILL, TELOPT_BINARY)
                  \o telnet_send_negotiate(c, TELNET_WILL, TELOPT_SGA)
                  \o telnet_send_negotiate(c, TELNET_DO, TELOPT_SGA)
                  \o telnet_send_negotiate(c, TELNET_DO, TELOPT_ECHO)
                  \o telnet_send_negotiate(c, TELNET_WILL, TELOPT_TTYPE)
                  \o telnet_send_negotiate(c, TELNET_WILL, TELOPT_NAWS)
                  \o telnet_send_negotiate(c, TELNET_WILL, TELOPT_TSPEED)
                  \o telnet_send_negotiate(c, TELNET_WILL, TELOPT_ENVIRON)
                  \o telnet_send_negotiate(c, TELNET_WILL, TELOPT_LINEMODE)]

(* ======================================================================= *)
(* Kermit transport callbacks and engine loop (kermit_client.c)            *)
(* ======================================================================= *)
P_PKTLEN == 94

EOM_CR == 13

EOM_LF == 10

LEN_FIELD_MIN == 35

LEN_FIELD_MAX == 126

(* binary_mode_unescape: ret is the decoded length, -1 when a telnet      *)
(* command is detected, 0 on output overflow                              *)
RECURSIVE UnescapeLoop(_, _, _, _)
UnescapeLoop(input, i, out, output_size) ==
    IF i > Len(input) THEN [ret |-> Len(out), out |-> out]
    ELSE IF input[i] = TELNET_IAC /\ i + 1 <= Len(input)
    THEN IF input[i + 1] = TELNET_IAC
         THEN IF Len(out) + 1 > output_size THEN [ret |-> 0, out |-> << >>]
              ELSE UnescapeLoop(input, i + 2, Append(out, TELNET_IAC), output_size)
         ELSE IF /\ input[i + 1] \in {TELNET_WILL, TELNET_DO, TELNET_WONT, TELNET_DONT}
                 /\ i + 2 <= Len(input)
                 /\ input[i + 2] = TELOPT_BINARY
         THEN UnescapeLoop(input, i + 3, out, output_size)
         ELSE [ret |-> -1, out |-> << >>]
    ELSE IF Len(out) + 1 > output_size THEN [ret |-> 0, out |-> << >>]
         ELSE UnescapeLoop(input, i + 1, Append(out, input[i]), output_size)

binary_mode_unescape(input, output_size) == UnescapeLoop(input, 1, << >>, output_size)

(* rxd, pending path: bytes saved by the drain are returned first *)
RxdPending(pending, len) ==
    LET copy0 == TakeFirst(pending, IF Len(pending) < len THEN Len(pending) ELSE len)
        buf == IF Len(copy0) > 0 /\ copy0[1] = SOH THEN Tail(copy0) ELSE copy0
        copy_len == Len(buf)
    IN  IF copy_len >= 4 /\ (buf[1] < LEN_FIELD_MIN \/ buf[1] > LEN_FIELD_MAX)
        THEN [ret |-> 0, buf |-> << >>, pending |-> << >>, from |-> "pending"]
        ELSE [ret |-> copy_len, buf |-> buf,
              pending |-> IF copy_len < Len(pending) THEN DropFirst(pending, copy_len)
                          ELSE << >>,
              from |-> "pending"]

(* rxd, socket path after a successful read of raw (nread > 0) *)
RxdDecode(raw, len) ==
    LET u == binary_mode_unescape(raw, P_PKTLEN * 2)
        t1 == IF u.ret > 0 /\ u.out[1] = SOH THEN Tail(u.out) ELSE u.out
        t2 == IF Len(t1) > 0 /\ Last(t1) \in {EOM_CR, EOM_LF} THEN Front(t1) ELSE t1
    IN  IF u.ret = -1 THEN [ret |-> -1, buf |-> << >>]
        ELSE IF u.ret = 0 THEN [ret |-> -1, buf |-> << >>]
        ELSE IF Len(t2) > len + 8 THEN [ret |-> -1, buf |-> << >>]
        ELSE [ret |-> Len(t2), buf |-> t2]

(* otelnet_kermit_rxd: ev is what select/read on the socket yields        *)
(* ("timeout", "eintr", "error", "eof", or "data" with the raw bytes)     *)
otelnet_kermit_rxd(pending, ev, len) ==
    IF Len(pending) > 0 THEN RxdPending(pending, len)
    ELSE CASE ev.kind \in {"timeout", "eintr"} ->
                 [ret |-> 0, buf |-> << >>, pending |-> pending, from |-> "socket"]
           [] ev.kind \in {"error", "eof"} ->
                 [ret |-> -1, buf |-> << >>, pending |-> pending, from |-> "socket"]
           [] OTHER ->
                 LET d == RxdDecode(ev.raw, len)
                 IN  [ret |-> d.ret, buf |-> d.buf, pending |-> pending, from |-> "socket"]

(* ---- engine loop of kermit_client_send / kermit_client_receive ---- *)
MAX_CONSECUTIVE_NAKS == 10

MAX_CONSECUTIVE_TIMEOUTS == 5

KERMIT_TRANSFER_TIMEOUT == 60

R_TIMO == 15

(* the engine's bookkeeping (kermit_client_ctx_t) at loop entry; elapsed is *)
(* time(NULL) - ctx.start_time in seconds                                  *)
kermit_ctx_init ==
    [ result |-> "RUNNING", consecutive_naks |-> 0, consecutive_timeouts |-> 0,
      elapsed |-> 0 ]

(* what ekermit's kermit(K_RUN) reports for one packet: its status,       *)
(* whether the packet it queued in reply is a NAK, whether r.sofar > 0    *)
KermitOutcomes ==
    { [status |-> "X_OK", nak |-> FALSE, progress |-> TRUE],
      [status |-> "X_OK", nak |-> FALSE, progress |-> FALSE],
      [status |-> "X_OK", nak |-> TRUE, progress |-> FALSE],
      [status |-> "X_DONE", nak |-> FALSE, progress |-> TRUE],
      [status |-> "X_ERROR", nak |-> FALSE, progress |-> FALSE] }

(* time the socket kept rxd waiting *)
RxdWait(ev, pending) == IF Len(pending) = 0 /\ ev.kind = "timeout" THEN R_TIMO ELSE 0

(* the loop body after rxd returned rx: timeout and NAK accounting, then   *)
(* the status kermit(K_RUN) reported (k)                                   *)
KermitAfterRxd(c1, rx, k) ==
    IF rx.ret < 0 THEN [c1 EXCEPT !.result = "ERROR_CONNECTION"]
    ELSE IF rx.ret = 0
    THEN [c1 EXCEPT !.consecutive_timeouts = @ + 1,
                    !.result = IF c1.consecutive_timeouts + 1 >= MAX_CONSECUTIVE_TIMEOUTS
                               THEN "ERROR_TIMEOUT" ELSE @]
    ELSE IF k.nak
    THEN IF c1.consecutive_naks + 1 >= MAX_CONSECUTIVE_NAKS
         THEN [c1 EXCEPT !.consecutive_naks = @ + 1, !.result = "ERROR_GENERAL"]
         ELSE [c1 EXCEPT !.consecutive_naks = @ + 1,
                         !.result = CASE k.status = "X_DONE" -> "SUCCESS"
                                      [] k.status = "X_ERROR" -> "ERROR_GENERAL"
                                      [] OTHER -> @]
    ELSE [c1 EXCEPT
            !.consecutive_naks = IF k.status = "X_OK" /\ k.progress THEN 0 ELSE @,
            !.consecutive_timeouts = IF k.status = "X_OK" /\ k.progress THEN 0 ELSE @,
            !.result = CASE k.status = "X_DONE" -> "SUCCESS"
                         [] k.status = "X_ERROR" -> "ERROR_GENERAL"
                         [] OTHER -> @]

KermitPassResult(c, rx, wait, k) ==
    [ctx |-> KermitAfterRxd([c EXCEPT !.elapsed = @ + wait], rx, k),
     pending |-> rx.pending,
     rx |-> [ret |-> rx.ret, buf |-> rx.buf, from |-> rx.from]]

(* the loop pass without its deadline check *)
KermitLoopPass_NoDeadline(c, pending, ev, k) ==
    KermitPassResult(c, otelnet_kermit_rxd(pending, ev, P_PKTLEN),
                     RxdWait(ev, pending), k)

(* one pass of the protocol loop: deadline check, rxd, kermit(K_RUN);     *)
(* k is the outcome kermit() reports should a packet be handed to it      *)
KermitLoopPass(c, pending, ev, k) ==
    IF c.elapsed > KERMIT_TRANSFER_TIMEOUT
    THEN [ctx |-> [c EXCEPT !.result = "ERROR_TIMEOUT"], pending |-> pending,
          rx |-> [ret |-> 0, buf |-> << >>, from |-> "none"]]
    ELSE KermitPassResult(c, otelnet_kermit_rxd(pending, ev, P_PKTLEN),
                          RxdWait(ev, pending), k)

(* ======================================================================= *)
(* Transfer state, option snapshot and detectors (transfer.c, telnet.c)    *)
(* ======================================================================= *)
saved_none ==
    [ binary_local |-> FALSE, binary_remote |-> FALSE,
      echo_local |-> FALSE, echo_remote |-> FALSE,
      sga_local |-> FALSE, sga_remote |-> FALSE,
      linemode_active |-> FALSE ]

(* transfer_state_t; child is child_pid > 0, filename "" the empty string *)
transfer_init ==
    [ active |-> FALSE, protocol |-> "NONE", child |-> FALSE,
      auto_triggered |-> FALSE, filename |-> "", saved |-> saved_none ]

(* ret is SUCCESS or ERROR_GENERAL *)
transfer_enter_mode_NoActiveCheck(state, protocol) ==
    [ret |-> "SUCCESS",
     state |-> [state EXCEPT !.active = TRUE, !.protocol = protocol, !.child = FALSE]]

transfer_enter_mode(state, protocol) ==
    IF state.active THEN [ret |-> "ERROR_GENERAL", state |-> state]
    ELSE [ret |-> "SUCCESS",
          state |-> [state EXCEPT !.active = TRUE, !.protocol = protocol, !.child = FALSE]]

(* an exit that leaves the state as it is *)
transfer_exit_mode_Noop(state) == state

transfer_exit_mode(state) ==
    IF ~state.active THEN state
    ELSE [state EXCEPT !.active = FALSE, !.protocol = "NONE", !.child = FALSE,
                       !.auto_triggered = FALSE, !.filename = ""]

(* transfer_handle_error: the child, if any, is terminated; then exit mode *)
transfer_handle_error(state) == transfer_exit_mode([state EXCEPT !.child = FALSE])

telnet_save_state(t) ==
    [ binary_local |-> t.binary_local, binary_remote |-> t.binary_remote,
      echo_local |-> t.echo_local, echo_remote |-> t.echo_remote,
      sga_local |-> t.sga_local, sga_remote |-> t.sga_remote,
      linemode_active |-> t.linemode_active ]

(* telnet_request_binary_mode: result is the new telnet_t and the bytes sent *)
telnet_request_binary_mode(t) ==
    IF ~t.fd_open THEN [tn |-> t, sent |-> << >>]
    ELSE LET l == TELOPT_BINARY \notin t.local_options
             t1 == IF l THEN [t EXCEPT !.local_options = @ \cup {TELOPT_BINARY},
                                       !.binary_local = TRUE]
                   ELSE t
             r == TELOPT_BINARY \notin t1.remote_options
             t2 == IF r THEN [t1 EXCEPT !.remote_options = @ \cup {TELOPT_BINARY},
                                        !.binary_remote = TRUE]
                   ELSE t1
         IN  [tn |-> telnet_update_mode(t2),
              sent |-> (IF l THEN telnet_send_negotiate(t, TELNET_WILL, TELOPT_BINARY)
                        ELSE << >>)
                       \o (IF r THEN telnet_send_negotiate(t, TELNET_DO, TELOPT_BINARY)
                           ELSE << >>)]

(* one "restore ... state" block of telnet_restore_state: flag and registry *)
(* name the telnet_t fields, on / off the commands sent                     *)
RestoreOption(r, saved, flag, registry, on, off, option) ==
    IF saved /\ ~r.tn[flag]
    THEN [tn |-> [r.tn EXCEPT ![registry] = @ \cup {option}, ![flag] = TRUE],
          sent |-> r.sent \o telnet_send_negotiate(r.tn, on, option)]
    ELSE IF ~saved /\ r.tn[flag]
    THEN [tn |-> [r.tn EXCEPT ![registry] = @ \ {option}, ![flag] = FALSE],
          sent |-> r.sent \o telnet_send_negotiate(r.tn, off, option)]
    ELSE r

(* a restore that leaves the remote BINARY state as the transfer left it *)
telnet_restore_state_SkipRemoteBinary(t, s) ==
    IF ~t.fd_open THEN [tn |-> t, sent |-> << >>]
    ELSE LET r1 == RestoreOption([tn |-> t, sent |-> << >>], s.binary_local, "binary_local",
                                 "local_options", TELNET_WILL, TELNET_WONT, TELOPT_BINARY)
             r3 == RestoreOption(r1, s.echo_local, "echo_local",
                                 "local_options", TELNET_WILL, TELNET_WONT, TELOPT_ECHO)
             r4 == RestoreOption(r3, s.echo_remote, "echo_remote",
                                 "remote_options", TELNET_DO, TELNET_DONT, TELOPT_ECHO)
             r5 == RestoreOption(r4, s.sga_local, "sga_local",
                                 "local_options", TELNET_WILL, TELNET_WONT, TELOPT_SGA)
             r6 == RestoreOption(r5, s.sga_remote, "sga_remote",
                                 "remote_options", TELNET_DO, TELNET_DONT, TELOPT_SGA)
         IN  [tn |-> telnet_update_mode([r6.tn EXCEPT !.linemode_active = s.linemode_active]),
              sent |-> r6.sent]

telnet_restore_state(t, s) ==
    IF ~t.fd_open THEN [tn |-> t, sent |-> << >>]
    ELSE LET r1 == RestoreOption([tn |-> t, sent |-> << >>], s.binary_local, "binary_local",
                                 "local_options", TELNET_WILL, TELNET_WONT, TELOPT_BINARY)
             r2 == RestoreOption(r1, s.binary_remote, "binary_remote",
                                 "remote_options", TELNET_DO, TELNET_DONT, TELOPT_BINARY)
             r3 == RestoreOption(r2, s.echo_local, "echo_local",
                                 "local_options", TELNET_WILL, TELNET_WONT, TELOPT_ECHO)
             r4 == RestoreOption(r3, s.echo_remote, "echo_remote",
                                 "remote_options", TELNET_DO, TELNET_DONT, TELOPT_ECHO)
             r5 == RestoreOption(r4, s.sga_local, "sga_local",
                                 "local_options", TELNET_WILL, TELNET_WONT, TELOPT_SGA)
             r6 == RestoreOption(r5, s.sga_remote, "sga_remote",
                                 "remote_options", TELNET_DO, TELNET_DONT, TELOPT_SGA)
         IN  [tn |-> telnet_update_mode([r6.tn EXCEPT !.linemode_active = s.linemode_active]),
              sent |-> r6.sent]

(* ---- file callbacks of the Kermit engine ---- *)
(* close statuses the engine passes: 'D' (the file is incomplete), 'B'     *)
(* (EOT), 'Z' (EOF), and 0                                                 *)
SLASH == 47

STATUS_D == 68
STATUS_B == 66
STATUS_Z == 90

(* otelnet_kermit_openf on the file fields c of the context; mode 1 opens  *)
(* for reading (send), 2 for writing (receive); fopen_ok is whether the    *)
(* file system lets the path be opened (the empty path never is); names    *)
(* and paths are the bytes of the C strings; opened is the path fopen()    *)
(* was given when it succeeded                                             *)
otelnet_kermit_openf(c, name, mode, fopen_ok) ==
    LET filepath_to_open == IF mode = 1 /\ c.send_file_absolute_path # << >>
                            THEN c.send_file_absolute_path ELSE name
    IN  IF fopen_ok /\ filepath_to_open # << >>
        THEN [ctx |-> [c EXCEPT !.file = TRUE, !.current_filename = name], ret |-> 0,
              opened |-> filepath_to_open]
        ELSE [ctx |-> [c EXCEPT !.file = FALSE], ret |-> -1, opened |-> << >>]

(* a closef that deletes whatever the close status is *)
otelnet_kermit_closef_AnyStatus(c, ikeep, status, discard) ==
    IF ~c.file
    THEN [ctx |-> c, ret |-> 0, unlinked |-> << >>]
    ELSE [ctx |-> [c EXCEPT !.file = FALSE, !.current_filename = << >>],
          ret |-> 0,
          unlinked |-> IF discard = 2 /\ ~c.is_sending /\ ikeep = 0
                          /\ c.current_filename # << >>
                       THEN c.current_filename ELSE << >>]

(* otelnet_kermit_closef; unlinked is the name passed to unlink(), empty     *)
(* when unlink() is not called                                             *)
otelnet_kermit_closef(c, ikeep, status, discard) ==
    IF ~c.file
    THEN [ctx |-> c, ret |-> 0, unlinked |-> << >>]
    ELSE [ctx |-> [c EXCEPT !.file = FALSE, !.current_filename = << >>],
          ret |-> 0,
          unlinked |-> IF discard = 2 /\ ~c.is_sending /\ status = STATUS_D
                          /\ ikeep = 0 /\ c.current_filename # << >>
                       THEN c.current_filename ELSE << >>]

(* ---- IAC escaping of transfer.c ---- *)
(* telnet_escape_iac: ret is the escaped length, -1 when output_max is too *)
(* small                                                                   *)
RECURSIVE EscapeIacLoop(_, _, _)
EscapeIacLoop(input, out, output_max) ==
    IF input = << >> THEN [ret |-> Len(out), out |-> out]
    ELSE IF input[1] = TELNET_IAC
    THEN IF Len(out) + 2 > output_max THEN [ret |-> -1, out |-> out]
         ELSE EscapeIacLoop(Tail(input), out \o <<TELNET_IAC, TELNET_IAC>>, output_max)
    ELSE IF Len(out) + 1 > output_max THEN [ret |-> -1, out |-> out]
         ELSE EscapeIacLoop(Tail(input), Append(out, input[1]), output_max)

(* an escape that copies its input *)
telnet_escape_iac_Copy(input, output_max) ==
    IF Len(input) > output_max THEN [ret |-> -1, out |-> << >>]
    ELSE [ret |-> Len(input), out |-> input]

telnet_escape_iac(input, output_max) == EscapeIacLoop(input, << >>, output_max)

SUCCESS == 0

(* telnet_prepare_output with its output buffer of output_size bytes: the  *)
(* loop stops at the first byte that does not fit, and the call returns    *)
(* SUCCESS with what it has written                                        *)
RECURSIVE PrepareLoop(_, _, _)
PrepareLoop(input, out, output_size) ==
    IF input = << >> THEN out
    ELSE IF input[1] = TELNET_IAC
    THEN IF Len(out) + 1 < output_size
         THEN PrepareLoop(Tail(input), out \o <<TELNET_IAC, TELNET_IAC>>, output_size)
         ELSE out
    ELSE IF Len(out) < output_size
         THEN PrepareLoop(Tail(input), Append(out, input[1]), output_size)
         ELSE out

telnet_prepare_output_into(input, output_size) ==
    [ret |-> SUCCESS, out |-> PrepareLoop(input, << >>, output_size)]

(* binary_mode_escape: ret is the escaped length, 0 when output_size is    *)
(* too small (otelnet_kermit_txd takes 0 for a non-empty input as failure) *)
binary_mode_escape(input, output_size) ==
    LET r == EscapeIacLoop(input, << >>, output_size)
    IN  IF r.ret < 0 THEN [ret |-> 0, out |-> << >>] ELSE r

(* telnet_unescape_iac: iac_state is 1 when the previous byte was an       *)
(* unpaired 0xFF, also across calls                                         *)
RECURSIVE UnescapeIacLoop(_, _, _, _)
UnescapeIacLoop(input, out, output_max, iac_state) ==
    IF input = << >> THEN [ret |-> Len(out), out |-> out, iac_state |-> iac_state]
    ELSE IF iac_state = 1
    THEN IF input[1] = TELNET_IAC
         THEN IF Len(out) + 1 > output_max
              THEN [ret |-> -1, out |-> out, iac_state |-> iac_state]
              ELSE UnescapeIacLoop(Tail(input), Append(out, TELNET_IAC), output_max, 0)
         ELSE UnescapeIacLoop(Tail(input), out, output_max, 0)
    ELSE IF input[1] = TELNET_IAC
    THEN UnescapeIacLoop(Tail(input), out, output_max, 1)
    ELSE IF Len(out) + 1 > output_max
         THEN [ret |-> -1, out |-> out, iac_state |-> iac_state]
         ELSE UnescapeIacLoop(Tail(input), Append(out, input[1]), output_max, 0)

telnet_unescape_iac(input, output_max, iac_state) ==
    UnescapeIacLoop(input, << >>, output_max, iac_state)

(* ---- auto-detectors ---- *)
(* now is the value of time(NULL) in the call, in seconds; the reads of    *)
(* the session specification all arrive in second 1.                       *)
ZMODEM_DETECT_BUFFER_SIZE == 32

XMODEM_YMODEM_DETECT_BUFFER_SIZE == 64

XMODEM_YMODEM_MIN_REPEATS == 3

XMODEM_YMODEM_DETECT_WINDOW == 3

XMODEM_NAK == 21

XMODEM_CRC == 67

zmodem_detector_init == [enabled |-> TRUE, buffer |-> << >>]

xmodem_detector_init ==
    [enabled |-> TRUE, buffer |-> << >>, last_char |-> 0, repeat_count |-> 0,
     first_seen |-> 0, last_seen |-> 0]

ymodem_detector_init ==
    [enabled |-> TRUE, buffer |-> << >>, c_repeat_count |-> 0,
     first_seen |-> 0, last_seen |-> 0]

zmodem_detector_set_enabled(d, enabled) ==
    [d EXCEPT !.enabled = enabled, !.buffer = IF enabled THEN @ ELSE << >>]

xmodem_detector_set_enabled(d, enabled) ==
    [d EXCEPT !.enabled = enabled,
              !.last_char = IF enabled THEN @ ELSE 0,
              !.repeat_count = IF enabled THEN @ ELSE 0,
              !.first_seen = IF enabled THEN @ ELSE 0,
              !.last_seen = IF enabled THEN @ ELSE 0]

ymodem_detector_set_enabled(d, enabled) ==
    [d EXCEPT !.enabled = enabled, !.c_repeat_count = IF enabled THEN @ ELSE 0,
              !.first_seen = IF enabled THEN @ ELSE 0,
              !.last_seen = IF enabled THEN @ ELSE 0]

(* buffer[len++] = c on a sliding window of the given size *)
WindowAppend(buffer, c, size) ==
    Append(IF Len(buffer) >= size THEN Tail(buffer) ELSE buffer, c)

ToLower(c) == IF c >= 65 /\ c <= 90 THEN c + 32 ELSE c

EndsWith(buffer, pattern) ==
    /\ Len(buffer) >= Len(pattern)
    /\ \A j \in 1..Len(pattern) : buffer[Len(buffer) - Len(pattern) + j] = pattern[j]

EndsWithNoCase(buffer, pattern) ==
    /\ Len(buffer) >= Len(pattern)
    /\ \A j \in 1..Len(pattern) :
           ToLower(buffer[Len(buffer) - Len(pattern) + j]) = ToLower(pattern[j])

(* "**\030B00", "**\030B01", "**\030B08", and "rz" before CR, LF or CR LF *)
ZmodemPattern(b) ==
    \/ EndsWith(b, <<42, 42, 24, 66, 48, 48>>)
    \/ EndsWith(b, <<42, 42, 24, 66, 48, 49>>)
    \/ EndsWith(b, <<42, 42, 24, 66, 48, 56>>)
    \/ EndsWith(b, <<114, 122, CR>>)
    \/ EndsWith(b, <<114, 122, LF>>)
    \/ EndsWith(b, <<114, 122, CR, LF>>)

(* the detect_trigger functions: result is the detector and the trigger    *)
(* reported ("none", "receive": remote is sending, "send": remote receives) *)
RECURSIVE zmodem_detect_loop(_, _)
zmodem_detect_loop(d, data) ==
    IF data = << >> THEN [det |-> d, trigger |-> "none"]
    ELSE LET b == WindowAppend(d.buffer, data[1], ZMODEM_DETECT_BUFFER_SIZE)
         IN  IF ZmodemPattern(b)
             THEN [det |-> [d EXCEPT !.buffer = << >>], trigger |-> "receive"]
             ELSE zmodem_detect_loop([d EXCEPT !.buffer = b], Tail(data))

zmodem_detect_trigger(d, data) ==
    IF ~d.enabled THEN [det |-> d, trigger |-> "none"] ELSE zmodem_detect_loop(d, data)

(* the text-pattern loop shared by the XMODEM and YMODEM detectors; name is *)
(* "XMODEM" or "YMODEM" in bytes                                           *)
RECURSIVE TextLoop(_, _, _)
TextLoop(buffer, data, name) ==
    IF data = << >> THEN [buffer |-> buffer, found |-> FALSE]
    ELSE LET b == WindowAppend(buffer, data[1], XMODEM_YMODEM_DETECT_BUFFER_SIZE)
         IN  IF \/ EndsWithNoCase(b, name \o <<32, 114, 101, 99, 101, 105, 118, 101>>)
                \/ EndsWithNoCase(b, name \o <<32, 115, 101, 110, 100>>)
             THEN [buffer |-> << >>, found |-> TRUE]
             ELSE TextLoop(b, Tail(data), name)

(* the reset at the end of a call that did not fire: the sequence is      *)
(* dropped when its latest trigger byte is older than the window           *)
DetectorTimeout(d, cleared, now) ==
    IF d.first_seen > 0 /\ now - d.last_seen > XMODEM_YMODEM_DETECT_WINDOW
    THEN cleared ELSE d

XmodemClear(d) ==
    [d EXCEPT !.last_char = 0, !.repeat_count = 0, !.first_seen = 0, !.last_seen = 0]

RECURSIVE xmodem_scan(_, _, _)
xmodem_scan(d, data, now) ==
    IF data = << >>
    THEN [det |-> DetectorTimeout(d, XmodemClear(d), now), trigger |-> "none"]
    ELSE LET c == data[1]
         IN  IF c = XMODEM_NAK \/ c = XMODEM_CRC
             THEN IF c = d.last_char
                  THEN IF /\ d.repeat_count + 1 >= XMODEM_YMODEM_MIN_REPEATS
                          /\ now - d.first_seen <= XMODEM_YMODEM_DETECT_WINDOW
                       THEN [det |-> XmodemClear(d), trigger |-> "send"]
                       ELSE xmodem_scan([d EXCEPT !.repeat_count = @ + 1, !.last_seen = now],
                                        Tail(data), now)
                  ELSE xmodem_scan([d EXCEPT !.last_char = c, !.repeat_count = 1,
                                             !.first_seen = now, !.last_seen = now],
                                   Tail(data), now)
             ELSE IF c >= 32 /\ c < 127
             THEN xmodem_scan(XmodemClear(d), Tail(data), now)
             ELSE xmodem_scan(d, Tail(data), now)

xmodem_detect_trigger(d, data, now) ==
    IF ~d.enabled THEN [det |-> d, trigger |-> "none"]
    ELSE LET t == TextLoop(d.buffer, data, <<88, 77, 79, 68, 69, 77>>)
         IN  IF t.found THEN [det |-> [d EXCEPT !.buffer = << >>], trigger |-> "receive"]
             ELSE xmodem_scan([d EXCEPT !.buffer = t.buffer], data, now)

YmodemClear(d) ==
    [d EXCEPT !.c_repeat_count = 0, !.first_seen = 0, !.last_seen = 0]

RECURSIVE ymodem_scan(_, _, _)
ymodem_scan(d, data, now) ==
    IF data = << >>
    THEN [det |-> DetectorTimeout(d, YmodemClear(d), now), trigger |-> "none"]
    ELSE LET c == data[1]
         IN  IF c = XMODEM_CRC
             THEN LET first_seen == IF d.first_seen = 0 THEN now ELSE d.first_seen
                  IN  IF /\ d.c_repeat_count + 1 >= XMODEM_YMODEM_MIN_REPEATS
                         /\ now - first_seen <= XMODEM_YMODEM_DETECT_WINDOW
                      THEN [det |-> YmodemClear(d), trigger |-> "send"]
                      ELSE ymodem_scan([d EXCEPT !.c_repeat_count = @ + 1,
                                                 !.first_seen = first_seen,
                                                 !.last_seen = now],
                                       Tail(data), now)
             ELSE IF c >= 32 /\ c < 127
             THEN ymodem_scan(YmodemClear(d), Tail(data), now)
             ELSE ymodem_scan(d, Tail(data), now)

ymodem_detect_trigger(d, data, now) ==
    IF ~d.enabled THEN [det |-> d, trigger |-> "none"]
    ELSE LET t == TextLoop(d.buffer, data, <<89, 77, 79, 68, 69, 77>>)
         IN  IF t.found THEN [det |-> [d EXCEPT !.buffer = << >>], trigger |-> "receive"]
             ELSE ymodem_scan([d EXCEPT !.buffer = t.buffer], data, now)

(* ======================================================================= *)
(* State                                                                   *)
(* ======================================================================= *)
VARIABLES
    tn,        \* telnet_t of the session
    negLog,    \* the latest negotiation command (and an identical one just before it), with replies
    codec,     \* bytes passed through telnet_escape_iac / telnet_unescape_iac, and the calls made
    items,     \* the events whose serialization has been fed to the Framer, in order
    fio,       \* the file fields of kermit_client_ctx_t, k_data.ikeep and the latest file callback
    watch,     \* the clock of the detector calls and the latest bytes each detector was given
    tn0,       \* telnet_t at the start of the observed Framer input
    stream,    \* bytes fed to the Framer so far
    clean,     \* clean bytes the Framer has emitted so far, over all calls
    events,    \* negotiation / subnegotiation events dispatched so far
    kctx,      \* Kermit engine bookkeeping (kermit_client_ctx_t) and its result
    pending_data,  \* otelnet_ctx_t.pending_data[0 .. pending_data_len-1]
    rx,        \* what the latest rxd call returned
    rawIn,     \* the raw bytes the latest rxd call read from the socket
    rawIAC,    \* the raw socket stream of this transfer ends in an unpaired IAC
    peerLeftBinary,  \* the raw socket stream of this transfer held IAC <non-IAC>
    mode,      \* otelnet_ctx_t.mode: "CLIENT", "CONSOLE" or "TRANSFER"
    transfer,  \* otelnet_ctx_t.transfer (transfer_state_t)
    g_transfer_cancel_requested,  \* the cancellation flag set by the signal handler
    g_running_local,              \* cleared by the signal handler; ends the session loop
    zmodem_detector, xmodem_detector, ymodem_detector,
    pc,        \* where control is: the session loop or a step of otelnet_execute_transfer
    sup,       \* locals of otelnet_execute_transfer and of the function it dispatched to
    wire,      \* bytes the latest step wrote to the socket
    early,     \* clean bytes the drain of this transfer classified as an early Kermit packet
    fromPending  \* bytes rxd has handed to the engine out of pending_data in this transfer

vars == <<tn, negLog, codec, items, fio, watch, tn0, stream, clean, events,
          kctx, pending_data, rx, rawIn, rawIAC, peerLeftBinary,
          mode, transfer, g_transfer_cancel_requested, g_running_local,
          zmodem_detector, xmodem_detector, ymodem_detector,
          pc, sup, wire, early, fromPending>>

detVars == <<zmodem_detector, xmodem_detector, ymodem_detector>>

supVars == <<mode, transfer, g_transfer_cancel_requested, g_running_local,
             zmodem_detector, xmodem_detector, ymodem_detector,
             pc, sup, wire, early, fromPending>>

(* locals of an otelnet_execute_transfer call that has not started; calls  *)
(* counts the calls made in this session, entered tells whether the call   *)
(* got past transfer_enter_mode; of the latest iteration of the relay      *)
(* loop: sock_read is the raw bytes read from the socket, child_written    *)
(* the bytes written to the stdin pipe, pipe_read the bytes read from the  *)
(* stdout pipe, child_taken and sock_taken the bytes that the write() to   *)
(* the stdin pipe and to the socket accepted; cancel_in_call tells whether *)
(* a SIGINT / SIGTERM has arrived since the call began                     *)
sup_none ==
    [ protocol |-> "NONE", filename |-> "", multi |-> FALSE,
      already_binary |-> FALSE, drain_count |-> 0,
      detectors_were_enabled |-> FALSE, binary_mode_ended |-> FALSE,
      result |-> "NONE", error |-> "NONE", flush_attempts |-> 0,
      calls |-> 0, entered |-> FALSE,
      sock_read |-> << >>, child_written |-> << >>, pipe_read |-> << >>,
      child_taken |-> << >>, sock_taken |-> << >>,
      cancel_in_call |-> FALSE,
      flushed |-> << >> ]

(* otelnet_init: the state of the session outside any transfer *)
supIdle ==
    /\ mode = "CLIENT"
    /\ transfer = transfer_init
    /\ g_transfer_cancel_requested = FALSE
    /\ g_running_local = TRUE
    /\ zmodem_detector = zmodem_detector_init
    /\ xmodem_detector = xmodem_detector_init
    /\ ymodem_detector = ymodem_detector_init
    /\ pc = "session"
    /\ sup = sup_none
    /\ wire = << >>
    /\ early = << >>
    /\ fromPending = << >>

kermitVars == <<kctx, pending_data, rx, rawIn, rawIAC, peerLeftBinary>>

rxNone == [ret |-> 0, buf |-> << >>, from |-> "none"]

kermitIdle ==
    /\ kctx = [kermit_ctx_init EXCEPT !.result = "NONE"]
    /\ pending_data = << >>
    /\ rx = rxNone
    /\ rawIn = << >>
    /\ rawIAC = FALSE
    /\ peerLeftBinary = FALSE

(* no escape / unescape call has been made *)
codec_none ==
    [ input |-> << >>, output_max |-> 0, bytes |-> << >>, ret |-> 0,
      iac_state |-> 0, calls |-> << >> ]

(* no file callback has been made; no file is open *)
call_none ==
    [ op |-> "none", name |-> << >>, mode |-> 0, status |-> 0, discard |-> 0,
      had_file |-> FALSE, unlinked |-> << >>, opened |-> << >>, ret |-> 0 ]

fio_none ==
    [ ctx |-> [ file |-> FALSE, is_sending |-> FALSE, current_filename |-> << >>,
                send_file_absolute_path |-> << >> ],
      ikeep |-> 0, last |-> call_none, calls |-> 0 ]

(* no byte has been given to a detector; the clock reads second 1 *)
watch_none ==
    [ now |-> 1, fed |-> 0, recent_x |-> << >>, recent_y |-> << >>,
      trigger_x |-> "none", trigger_y |-> "none" ]

auxVars == <<codec, items, fio, watch>>

auxIdle == codec = codec_none /\ items = << >> /\ fio = fio_none /\ watch = watch_none

negIdle == negLog = << >> /\ auxIdle

frmIdle == tn0 = telnet_init /\ stream = << >> /\ clean = << >> /\ events = << >>

(* ======================================================================= *)
(* Negotiator driven by the peer's commands                                *)
(* ======================================================================= *)
NegCommands == {TELNET_WILL, TELNET_WONT, TELNET_DO, TELNET_DONT}

NegInit ==
    /\ tn = telnet_connect(telnet_init).tn
    /\ negIdle
    /\ frmIdle
    /\ kermitIdle
    /\ supIdle

(* option codes the peer negotiates: the options the negotiator treats   *)
(* individually (TSPEED and ENVIRON take the same path as TTYPE), and     *)
(* unsupported codes (STATUS 5, and 255)                                  *)
NegOptions == {TELOPT_BINARY, TELOPT_ECHO, TELOPT_SGA, TELOPT_TTYPE, TELOPT_NAWS,
               TELOPT_LINEMODE, 5, 255}

SameRequest(e, f) == e.command = f.command /\ e.option = f.option

(* the Framer hands one complete IAC <command> <option> to the negotiator; *)
(* negLog keeps the command with its reply, preceded by the previous      *)
(* command when that was the same command for the same option             *)
RecvNegotiate ==
    \E command \in NegCommands, option \in NegOptions :
        LET h == telnet_handle_negotiate(tn, command, option)
            e == [command |-> command, option |-> option, sent |-> h.sent]
        IN  /\ tn' = h.tn
            /\ negLog' = IF negLog # << >> /\ SameRequest(Last(negLog), e)
                          THEN <<Last(negLog), e>> ELSE <<e>>
            /\ UNCHANGED <<auxVars, tn0, stream, clean, events>>
            /\ UNCHANGED kermitVars
            /\ UNCHANGED supVars

NegNext == RecvNegotiate

SpecNeg == NegInit /\ [][NegNext]_vars

(* ======================================================================= *)
(* Framer fed a byte stream in successive calls                            *)
(* ======================================================================= *)
MaxStream == 5

MaxChunk == 2

FramerAlphabet == {TELNET_IAC, TELNET_WILL, TELNET_SB, TELNET_SE, CR, LF, NUL, 97}

Chunks(alphabet, n) == UNION { [1..k -> alphabet] : k \in 1..n }

(* sessions the stream may start in: fresh after connect, or with the     *)
(* peer already in BINARY                                                 *)
FramerStarts ==
    { telnet_connect(telnet_init).tn,
      telnet_process_input(telnet_connect(telnet_init).tn,
                           <<TELNET_IAC, TELNET_WILL, TELOPT_BINARY>>, BUFFER_SIZE).tn }

FramerInit ==
    /\ tn0 \in FramerStarts
    /\ tn = tn0
    /\ stream = << >>
    /\ clean = << >>
    /\ events = << >>
    /\ negIdle
    /\ kermitIdle
    /\ supIdle

(* one telnet_process_input call on the next bytes of the stream *)
FramerCall ==
    \E chunk \in Chunks(FramerAlphabet, MaxChunk) :
        /\ Len(stream) + Len(chunk) <= MaxStream
        /\ LET r == telnet_process_input(tn, chunk, BUFFER_SIZE)
           IN  /\ tn' = r.tn
               /\ clean' = clean \o r.out
               /\ events' = events \o r.events
        /\ stream' = stream \o chunk
        /\ UNCHANGED <<tn0, negLog, auxVars>>
        /\ UNCHANGED kermitVars
        /\ UNCHANGED supVars

FramerNext == FramerCall

SpecFramer == FramerInit /\ [][FramerNext]_vars

(* ======================================================================= *)
(* Kermit engine loop reading the socket                                   *)
(* ======================================================================= *)
(* packet type N: a NAK *)
PKT_NAK == 78

(* raw reads the socket may deliver during a transfer *)
KermitReads ==
    { <<97>>, <<SOH, 35, 32, 83, CR>>, <<CR>>,
      <<SOH, 35, 32, PKT_NAK, 51, CR>>,
      <<TELNET_IAC, TELNET_IAC>>,
      <<97, TELNET_IAC>>, <<TELNET_IAC>>,
      <<TELNET_WONT, TELOPT_BINARY>>,
      <<TELNET_IAC, TELNET_WONT, TELOPT_BINARY>>,
      <<97, TELNET_IAC, TELNET_WONT, TELOPT_BINARY>>,
      <<TELNET_IAC, TELNET_DONT, TELOPT_BINARY, 97>>,
      <<TELNET_IAC, TELNET_WILL, TELOPT_BINARY, 97>>,
      <<TELNET_IAC, TELNET_WONT, TELOPT_ECHO>>,
      <<TELNET_IAC, TELNET_AYT>> }

KermitSockEvents ==
    { [kind |-> x, raw |-> << >>] : x \in {"timeout", "eintr", "error", "eof"} }
    \cup { [kind |-> "data", raw |-> r] : r \in KermitReads }

(* bytes an earlier drain may have left in pending_data *)
KermitPendings == { << >>, <<35, 32, 83, 49>>, <<SOH, 35, 32, 83, CR>> }

(* does the raw stream, continued by raw, hold IAC followed by a non-IAC byte *)
RECURSIVE ScanIAC(_, _)
ScanIAC(o, raw) ==
    IF raw = << >> THEN o
    ELSE ScanIAC(IF o.iac
                 THEN [iac |-> FALSE, left |-> o.left \/ raw[1] # TELNET_IAC]
                 ELSE [iac |-> raw[1] = TELNET_IAC, left |-> o.left],
                 Tail(raw))

KermitInit ==
    /\ tn = telnet_connect(telnet_init).tn
    /\ negIdle
    /\ frmIdle
    /\ kctx = kermit_ctx_init
    /\ pending_data \in KermitPendings
    /\ rx = rxNone
    /\ rawIn = << >>
    /\ rawIAC = FALSE
    /\ peerLeftBinary = FALSE
    /\ supIdle

(* one pass of the protocol loop of kermit_client_send / _receive, the     *)
(* socket yielding one of socks and kermit(K_RUN) reporting one of outcomes *)
KermitPassOn(socks, outcomes) ==
    \E ev \in socks, k \in outcomes :
        /\ kctx.result = "RUNNING"
        /\ LET p == KermitLoopPass(kctx, pending_data, ev, k)
               read == p.rx.from = "socket" /\ ev.kind = "data"
               o == ScanIAC([iac |-> rawIAC, left |-> peerLeftBinary],
                            IF read THEN ev.raw ELSE << >>)
           IN  /\ p.rx.ret > 0 \/ k = CHOOSE x \in outcomes : TRUE
               /\ p.rx.from = "socket" \/ ev = CHOOSE x \in socks : TRUE
               /\ kctx' = p.ctx
               /\ pending_data' = p.pending
               /\ rx' = p.rx
               /\ rawIn' = IF read THEN ev.raw ELSE << >>
               /\ rawIAC' = o.iac
               /\ peerLeftBinary' = o.left
        /\ UNCHANGED <<tn, negLog, auxVars, tn0, stream, clean, events>>
        /\ UNCHANGED supVars

KermitPass == KermitPassOn(KermitSockEvents, KermitOutcomes)

KermitNext == KermitPass

SpecKermit == KermitInit /\ [][KermitNext]_vars

(* ======================================================================= *)
(* Kermit engine loop under a running clock                                *)
(* ======================================================================= *)
(* time(NULL) counts whole seconds *)
CLOCK_SECOND == 1

(* what the peer does while the clock is watched: stay silent or send a    *)
(* packet                                                                  *)
LiveSockEvents ==
    { [kind |-> "timeout", raw |-> << >>],
      [kind |-> "data", raw |-> <<SOH, 35, 32, 83, CR>>] }

KermitLiveInit == KermitInit /\ pending_data = << >>

KermitLivePass == KermitPassOn(LiveSockEvents, KermitOutcomes)

(* a second passes while the loop is running; the clock is followed until  *)
(* the deadline check can no longer tell the readings apart                *)
ClockTick ==
    /\ kctx.result = "RUNNING"
    /\ kctx.elapsed <= KERMIT_TRANSFER_TIMEOUT
    /\ kctx' = [kctx EXCEPT !.elapsed = @ + CLOCK_SECOND]
    /\ UNCHANGED <<pending_data, rx, rawIn, rawIAC, peerLeftBinary>>
    /\ UNCHANGED <<tn, negLog, auxVars, tn0, stream, clean, events>>
    /\ UNCHANGED supVars

KermitLiveNext == KermitLivePass \/ ClockTick

(* select() in rxd returns within r_timo seconds and kermit() returns, so  *)
(* a pass of the loop always completes; the clock never stops              *)
SpecKermitLive ==
    KermitLiveInit /\ [][KermitLiveNext]_vars
    /\ WF_vars(KermitLivePass) /\ WF_vars(ClockTick)

(* ======================================================================= *)
(* Session loop and transfer supervisor (otelnet.c, transfer.c)            *)
(* ======================================================================= *)
KermitProtocols == {"KERMIT_SEND", "KERMIT_RECV"}

(* otelnet_execute_transfer / _multi up to the drain loop: connection      *)
(* check, transfer_enter_mode, filename, option snapshot, BINARY request.  *)
(* filename "" stands for NULL. ret is "ENTERED" when the call goes on to  *)
(* the drain loop, else the error code it returned.                        *)
otelnet_execute_transfer_entry(t, tr, protocol, filename, multi) ==
    IF ~t.fd_open
    THEN [ret |-> "ERROR_CONNECTION", tn |-> t, transfer |-> tr, sent |-> << >>,
          already_binary |-> FALSE, drain_count |-> 0]
    ELSE LET e == transfer_enter_mode(tr, protocol)
         IN  IF e.ret # "SUCCESS"
             THEN [ret |-> "ERROR_GENERAL", tn |-> t, transfer |-> tr, sent |-> << >>,
                   already_binary |-> FALSE, drain_count |-> 0]
             ELSE LET already == ~multi /\ t.binary_local /\ t.binary_remote
                      rq == IF already THEN [tn |-> t, sent |-> << >>]
                            ELSE telnet_request_binary_mode(t)
                  IN  [ret |-> "ENTERED", tn |-> rq.tn,
                       transfer |-> [e.state EXCEPT
                                        !.filename = IF multi \/ filename = "" THEN @
                                                     ELSE filename,
                                        !.saved = telnet_save_state(t)],
                       sent |-> rq.sent,
                       already_binary |-> already,
                       drain_count |-> IF already THEN 2 ELSE 3]

(* does the clean data of a drain read look like a Kermit packet *)
is_kermit_packet(proc_buf) ==
    \/ proc_buf[1] = SOH
    \/ /\ Len(proc_buf) >= 4
       /\ proc_buf[1] >= LEN_FIELD_MIN /\ proc_buf[1] <= LEN_FIELD_MAX
       /\ proc_buf[2] >= 32 /\ proc_buf[2] <= 126
       /\ proc_buf[3] >= 32 /\ proc_buf[3] <= 126

(* one iteration of the drain loop whose recv returned raw (n > 0): the    *)
(* Framer runs on a 256-byte output buffer; an early Kermit packet is      *)
(* appended to pending_data when it fits and ends the loop (brk)           *)
DrainClassify(r, packet, pending) ==
    [tn |-> r.tn, sent |-> r.sent,
     pending |-> IF packet /\ Len(pending) + Len(r.out) <= BUFFER_SIZE
                 THEN pending \o r.out ELSE pending,
     early |-> IF packet THEN r.out ELSE << >>,
     brk |-> packet]

DrainProcessed(r, pending, multi) ==
    DrainClassify(r, ~multi /\ Len(r.out) > 0 /\ is_kermit_packet(r.out), pending)

DrainRead(t, pending, raw, multi) ==
    DrainProcessed(telnet_process_input(t, raw, SMALL_BUFFER_SIZE), pending, multi)

(* error classification of otelnet_execute_transfer after the dispatch *)
TransferError(result, cancel) ==
    IF result = "SUCCESS" THEN "NONE"
    ELSE IF cancel THEN "USER_CANCEL"
    ELSE IF result = "ERROR_TIMEOUT" THEN "TIMEOUT"
    ELSE IF result = "ERROR_CONNECTION" THEN "NETWORK"
    ELSE IF result = "ERROR_IO" THEN "PERMISSION"
    ELSE "UNKNOWN"

MAX_FLUSH_ATTEMPTS == 10

(* ---- what the peer, the user and the child process may do ---- *)
(* socket reads of the session loop: negotiation that leaves both          *)
(* directions BINARY, the peer turning ECHO on, XMODEM NAKs, "rz" LF       *)
SessionReads ==
    { <<TELNET_IAC, TELNET_DONT, TELOPT_BINARY, TELNET_IAC, TELNET_DO, TELOPT_BINARY,
        TELNET_IAC, TELNET_WILL, TELOPT_BINARY>>,
      <<TELNET_IAC, TELNET_WILL, TELOPT_ECHO>>,
      <<XMODEM_NAK, XMODEM_NAK, XMODEM_NAK>>,
      <<114, 122, LF>> }

(* socket reads of the drain loop: a refusal of BINARY, an early packet,   *)
(* server chatter, and a read that ends after the first two bytes of the   *)
(* peer's IAC WILL BINARY                                                  *)
DrainReads ==
    { <<TELNET_IAC, TELNET_WONT, TELOPT_BINARY>>,
      <<TELNET_IAC, TELNET_WILL>>,
      <<SOH, 35, 32, 83, CR>>,
      <<97>> }

(* socket reads of the relay loop *)
RelayReads ==
    { <<97>>,
      <<TELNET_IAC, TELNET_DO, TELOPT_LINEMODE>>,
      <<TELNET_IAC, TELNET_WONT, TELOPT_BINARY>>,
      <<6, TELNET_IAC, TELNET_WONT, TELOPT_BINARY>> }

(* what select/read yield to rxd during the engine loop of a transfer *)
SupKermitEvents ==
    { [kind |-> "timeout", raw |-> << >>],
      [kind |-> "eof", raw |-> << >>],
      [kind |-> "data", raw |-> <<SOH, 35, 32, 83, CR>>],
      [kind |-> "data", raw |-> <<97, TELNET_IAC, TELNET_WONT, TELOPT_BINARY>>] }

(* protocols the console commands request, with the file name they pass *)
ConsoleRequests ==
    { [protocol |-> "KERMIT_SEND", filename |-> "f", multi |-> FALSE],
      [protocol |-> "KERMIT_RECV", filename |-> "", multi |-> FALSE],
      [protocol |-> "XMODEM_RECV", filename |-> "", multi |-> FALSE],
      [protocol |-> "ZMODEM_SEND", filename |-> "f", multi |-> TRUE] }

(* what the user types at the file name prompt of an automatic send; ""   *)
(* cancels the send                                                        *)
Answers == {"", "f"}

(* detector windows are observed up to this many bytes of session chatter *)
MaxChatter == 3

(* transfers requested in one session *)
MaxTransfers == 1

(* numbers of flush reads that return stale bytes *)
FlushCounts == {0, 1, MAX_FLUSH_ATTEMPTS, MAX_FLUSH_ATTEMPTS + 1}

(* what the first flush read returns when the socket has stale bytes: the  *)
(* peer turning ECHO on as the remote program gives the terminal back      *)
FlushReads == { <<TELNET_IAC, TELNET_WILL, TELOPT_ECHO>> }

(* the bytes recv() hands to the flush loop: none on a closed socket or    *)
(* when no read returns bytes                                              *)
Flushed(t, stale, bytes) ==
    IF ~t.fd_open \/ stale = 0 THEN << >> ELSE bytes

Init ==
    /\ tn = telnet_connect(telnet_init).tn
    /\ negIdle
    /\ frmIdle
    /\ kermitIdle
    /\ supIdle

frmVars == <<negLog, auxVars, tn0, stream, clean, events>>

engineVars == <<kctx, rx, rawIn, rawIAC, peerLeftBinary>>

(* the session loop runs while g_running_local is set *)
InSession == pc = "session" /\ g_running_local

(* a SIGINT / SIGTERM that arrives (sig) inside a handler of the session   *)
(* loop, after the loop has tested g_running_local and before the handler  *)
(* calls otelnet_execute_transfer: signal_handler runs in between          *)
SignalBeforeEntry(sig) ==
    /\ sig => pc' = "drain"
    /\ g_transfer_cancel_requested' = (g_transfer_cancel_requested \/ sig)
    /\ g_running_local' = (g_running_local /\ ~sig)

(* a call of otelnet_execute_transfer / _multi made with the telnet_t t:   *)
(* control moves to the drain loop, or the call returns its error at once  *)
StartTransfer(t, rq, sent) ==
    LET e == otelnet_execute_transfer_entry(t, transfer, rq.protocol, rq.filename, rq.multi)
    IN  /\ sup.calls < MaxTransfers
        /\ tn' = e.tn
        /\ transfer' = e.transfer
        /\ wire' = sent \o e.sent
        /\ sup' = [sup_none EXCEPT !.calls = sup.calls + 1,
                                   !.entered = e.ret = "ENTERED",
                                   !.protocol = rq.protocol, !.filename = rq.filename,
                                   !.multi = rq.multi,
                                   !.already_binary = e.already_binary,
                                   !.drain_count = e.drain_count,
                                   !.result = IF e.ret = "ENTERED" THEN "NONE" ELSE e.ret]
        /\ pc' = IF e.ret = "ENTERED" THEN "drain" ELSE "returned"
        /\ early' = << >>
        /\ fromPending' = << >>

otelnet_enter_console_mode ==
    /\ InSession
    /\ mode = "CLIENT"
    /\ mode' = "CONSOLE"
    /\ UNCHANGED <<tn, transfer, g_transfer_cancel_requested, g_running_local,
                   pc, sup, wire, early, fromPending, pending_data>>
    /\ UNCHANGED <<detVars, frmVars, engineVars>>

otelnet_exit_console_mode ==
    /\ InSession
    /\ mode = "CONSOLE"
    /\ mode' = "CLIENT"
    /\ UNCHANGED <<tn, transfer, g_transfer_cancel_requested, g_running_local,
                   pc, sup, wire, early, fromPending, pending_data>>
    /\ UNCHANGED <<detVars, frmVars, engineVars>>

(* a transfer command typed at the console prompt *)
ConsoleTransfer ==
    \E rq \in ConsoleRequests, sig \in BOOLEAN :
        /\ InSession
        /\ mode = "CONSOLE"
        /\ StartTransfer(tn, rq, << >>)
        /\ SignalBeforeEntry(sig)
        /\ UNCHANGED <<mode, pending_data>>
        /\ UNCHANGED <<detVars, frmVars, engineVars>>

(* SIGINT / SIGTERM, at any point of the session loop or of a transfer *)
signal_handler ==
    /\ \/ g_running_local \/ ~g_transfer_cancel_requested
       \/ pc # "session" /\ ~sup.cancel_in_call
    /\ g_transfer_cancel_requested' = TRUE
    /\ g_running_local' = FALSE
    /\ sup' = [sup EXCEPT !.cancel_in_call = @ \/ pc # "session"]
    /\ UNCHANGED <<tn, mode, transfer, pc, wire, early, fromPending, pending_data>>
    /\ UNCHANGED <<detVars, frmVars, engineVars>>

(* the transfer a trigger starts: zmodem / xmodem / ymodem are the         *)
(* triggers the detectors reported, answer the file name typed at the      *)
(* prompt of an automatic send                                             *)
AutoStartRequest(zmodem, xmodem, ymodem, answer) ==
    CASE zmodem = "receive" -> [protocol |-> "ZMODEM_RECV", filename |-> "", multi |-> FALSE]
      [] xmodem = "receive" -> [protocol |-> "XMODEM_RECV", filename |-> "", multi |-> FALSE]
      [] xmodem = "send" -> [protocol |-> "XMODEM_SEND", filename |-> answer, multi |-> FALSE]
      [] ymodem = "receive" -> [protocol |-> "YMODEM_RECV", filename |-> "", multi |-> FALSE]
      [] ymodem = "send" -> [protocol |-> "YMODEM_SEND", filename |-> answer, multi |-> TRUE]
      [] OTHER -> [protocol |-> "NONE", filename |-> "", multi |-> FALSE]

SkipDetector(d) == [det |-> d, trigger |-> "none"]

(* otelnet_process_telnet after the Framer (r) and the detectors (z, x, y) *)
ProcessTelnetStep(r, z, x, y, rq, asked) ==
    /\ zmodem_detector' = z.det
    /\ xmodem_detector' = x.det
    /\ ymodem_detector' = y.det
    /\ IF rq.protocol # "NONE" /\ (~asked \/ rq.filename # "")
       THEN StartTransfer(r.tn, rq, r.sent)
       ELSE /\ rq.protocol = "NONE" \/ sup.calls < MaxTransfers
            /\ tn' = r.tn
            /\ wire' = r.sent
            /\ UNCHANGED <<transfer, pc, sup, early, fromPending>>

DetectY(r, z, x, y, answer) ==
    /\ (x.trigger = "send" \/ y.trigger = "send") \/ answer = "f"
    /\ ProcessTelnetStep(r, z, x, y,
                         AutoStartRequest(z.trigger, x.trigger, y.trigger, answer),
                         x.trigger = "send" \/ y.trigger = "send")

DetectX(r, detect, z, x, answer) ==
    DetectY(r, z, x,
            IF detect /\ z.trigger = "none" /\ x.trigger = "none"
            THEN ymodem_detect_trigger(ymodem_detector, r.out, 1)
            ELSE SkipDetector(ymodem_detector),
            answer)

DetectZ(r, detect, z, answer) ==
    DetectX(r, detect, z,
            IF detect /\ z.trigger = "none"
            THEN xmodem_detect_trigger(xmodem_detector, r.out, 1)
            ELSE SkipDetector(xmodem_detector),
            answer)

(* the detectors run in CLIENT mode, outside a transfer, on clean data *)
Detect(r, detect, answer) ==
    /\ ~detect \/ Len(xmodem_detector.buffer) + Len(r.out) <= MaxChatter
    /\ DetectZ(r, detect,
               IF detect THEN zmodem_detect_trigger(zmodem_detector, r.out)
               ELSE SkipDetector(zmodem_detector),
               answer)

Processed(r, answer) ==
    Detect(r, Len(r.out) > 0 /\ mode = "CLIENT" /\ ~transfer.active, answer)

(* otelnet_process_telnet on a socket read: the Framer, then (in CLIENT    *)
(* mode, outside a transfer) the three detectors in turn; the first        *)
(* trigger starts a transfer, after asking for a file name (answer) when   *)
(* the remote side wants to receive                                        *)
otelnet_process_telnet ==
    \E raw \in SessionReads, answer \in Answers, sig \in BOOLEAN :
        /\ InSession
        /\ Processed(telnet_process_input(tn, raw, BUFFER_SIZE), answer)
        /\ SignalBeforeEntry(sig)
        /\ UNCHANGED <<mode, pending_data>>
        /\ UNCHANGED <<frmVars, engineVars>>

(* the drain loop after an iteration with outcome d *)
SupDrainStep(d, left) ==
    /\ tn' = d.tn
    /\ wire' = d.sent
    /\ pending_data' = d.pending
    /\ early' = early \o d.early
    /\ sup' = [sup EXCEPT !.drain_count = IF d.brk THEN @ ELSE left]
    /\ pc' = IF d.brk \/ left = 0 THEN "dispatch" ELSE "drain"

(* one iteration of the drain loop: select times out, or recv yields raw *)
SupDrain ==
    \E ev \in {[kind |-> "timeout", raw |-> << >>]}
              \cup {[kind |-> "data", raw |-> r] : r \in DrainReads} :
        /\ pc = "drain"
        /\ SupDrainStep(IF ev.kind = "data"
                        THEN DrainRead(tn, pending_data, ev.raw, sup.multi)
                        ELSE [tn |-> tn, sent |-> << >>, pending |-> pending_data,
                              early |-> << >>, brk |-> FALSE],
                        sup.drain_count - 1)
        /\ UNCHANGED <<mode, transfer, g_transfer_cancel_requested, g_running_local,
                       fromPending>>
        /\ UNCHANGED <<detVars, frmVars, engineVars>>

(* kermit_restore_auto_detection *)
kermit_restore_auto_detection(z, x, y, was_enabled) ==
    IF was_enabled
    THEN [z |-> zmodem_detector_set_enabled(z, TRUE),
          x |-> xmodem_detector_set_enabled(x, TRUE),
          y |-> ymodem_detector_set_enabled(y, TRUE)]
    ELSE [z |-> z, x |-> x, y |-> y]

(* mode = TRANSFER, then transfer_execute_kermit_send / _receive up to the *)
(* protocol loop of kermit_client_send / _receive: the transfer is marked  *)
(* active, the detectors are disabled, ekermit is initialised (started     *)
(* tells whether K_INIT and the first K_SEND succeeded)                    *)
SupDispatchKermit ==
    \E started \in BOOLEAN :
        /\ pc = "dispatch"
        /\ sup.protocol \in KermitProtocols
        /\ mode' = "TRANSFER"
        /\ IF sup.protocol = "KERMIT_SEND" /\ sup.filename = ""
           THEN /\ started
                /\ sup' = [sup EXCEPT !.result = "ERROR_INVALID_ARG"]
                /\ pc' = "exit"
                /\ UNCHANGED <<transfer, kctx, detVars>>
           ELSE LET were == zmodem_detector.enabled
                    z == zmodem_detector_set_enabled(zmodem_detector, FALSE)
                    x == xmodem_detector_set_enabled(xmodem_detector, FALSE)
                    y == ymodem_detector_set_enabled(ymodem_detector, FALSE)
                    back == kermit_restore_auto_detection(z, x, y, were)
                IN  /\ sup' = [sup EXCEPT !.detectors_were_enabled = were,
                                          !.result = IF started THEN @ ELSE "ERROR_GENERAL"]
                    /\ transfer' = [transfer EXCEPT
                                       !.active = started,
                                       !.protocol = sup.protocol,
                                       !.filename = IF sup.protocol = "KERMIT_SEND"
                                                    THEN sup.filename ELSE @]
                    /\ kctx' = IF started THEN kermit_ctx_init ELSE kctx
                    /\ pc' = IF started THEN "kermit" ELSE "exit"
                    /\ zmodem_detector' = IF started THEN z ELSE back.z
                    /\ xmodem_detector' = IF started THEN x ELSE back.x
                    /\ ymodem_detector' = IF started THEN y ELSE back.y
        /\ UNCHANGED <<tn, g_transfer_cancel_requested, g_running_local, wire, early,
                       fromPending, pending_data, rx, rawIn, rawIAC, peerLeftBinary>>
        /\ UNCHANGED frmVars

(* Kermit engine outcomes observed under the supervisor *)
SupKermitOutcomes == { k \in KermitOutcomes : ~k.nak }

(* the state after a pass p of the protocol loop; when the loop has ended  *)
(* (done), after the rest of kermit_client_send / _receive and of          *)
(* transfer_execute_kermit_*                                               *)
SupKermitStep(p, done, back) ==
    /\ pending_data' = p.pending
    /\ fromPending' = fromPending \o
                      (IF p.rx.from = "pending" /\ p.rx.ret > 0 THEN p.rx.buf ELSE << >>)
    /\ kctx' = IF done THEN [kermit_ctx_init EXCEPT !.result = "NONE"] ELSE p.ctx
    /\ sup' = [sup EXCEPT !.result = IF done THEN p.ctx.result ELSE @]
    /\ transfer' = [transfer EXCEPT !.active = IF done THEN FALSE ELSE @]
    /\ pc' = IF done THEN "exit" ELSE "kermit"
    /\ zmodem_detector' = IF done THEN back.z ELSE zmodem_detector
    /\ xmodem_detector' = IF done THEN back.x ELSE xmodem_detector
    /\ ymodem_detector' = IF done THEN back.y ELSE ymodem_detector

SupKermitApply(p, ev, k) ==
    /\ p.rx.ret > 0 \/ k = CHOOSE x \in SupKermitOutcomes : TRUE
    /\ p.rx.from = "socket" \/ ev = CHOOSE x \in SupKermitEvents : TRUE
    /\ SupKermitStep(p, p.ctx.result # "RUNNING",
                     kermit_restore_auto_detection(zmodem_detector, xmodem_detector,
                                                   ymodem_detector,
                                                   sup.detectors_were_enabled))

(* one pass of the protocol loop of a transfer *)
SupKermitPass ==
    \E ev \in SupKermitEvents, k \in SupKermitOutcomes :
        /\ pc = "kermit"
        /\ SupKermitApply(KermitLoopPass(kctx, pending_data, ev, k), ev, k)
        /\ UNCHANGED <<tn, mode, g_transfer_cancel_requested, g_running_local, wire, early,
                       rx, rawIn, rawIAC, peerLeftBinary>>
        /\ UNCHANGED frmVars

SendProtocols == {"ZMODEM_SEND", "XMODEM_SEND", "YMODEM_SEND"}

(* mode = TRANSFER, then transfer_execute_modem / _modem_files up to the   *)
(* relay loop of execute_external_program; started tells whether the       *)
(* program was found and pipe() and fork() succeeded                       *)
SupDispatchModem ==
    \E started \in BOOLEAN :
        /\ pc = "dispatch"
        /\ sup.protocol \notin KermitProtocols
        /\ mode' = "TRANSFER"
        /\ IF sup.protocol \in SendProtocols /\ sup.filename = ""
           THEN /\ started
                /\ sup' = [sup EXCEPT !.result = "ERROR_INVALID_ARG"]
                /\ pc' = "exit"
                /\ UNCHANGED transfer
           ELSE /\ transfer' = [transfer EXCEPT
                                   !.filename = IF sup.protocol \in SendProtocols
                                                THEN sup.filename ELSE @,
                                   !.child = started]
                /\ sup' = [sup EXCEPT !.binary_mode_ended = FALSE,
                                      !.result = IF started THEN @ ELSE "ERROR_GENERAL"]
                /\ pc' = IF started THEN "relay" ELSE "exit"
        /\ UNCHANGED <<tn, g_transfer_cancel_requested, g_running_local, wire, early,
                       fromPending, pending_data>>
        /\ UNCHANGED <<detVars, frmVars, engineVars>>

(* telnet_prepare_output into a buffer twice the size of the input *)
telnet_prepare_output(data) == EscapeIAC(data)

(* how the child process ends: it exits with code 0 or 1, a signal         *)
(* terminates it, or it ignores SIGTERM for two seconds and is killed      *)
ChildStatuses == {"exit0", "exit1", "signaled", "killed"}

(* execute_external_program after relay_data_pipes returned relay_result *)
ChildEnd(relay_result, st, cancel, tr) ==
    IF relay_result < 0 /\ st = "killed"
    THEN [transfer |-> transfer_handle_error(tr),
          result |-> IF cancel THEN "ERROR_GENERAL" ELSE "ERROR_CONNECTION"]
    ELSE [transfer |-> [tr EXCEPT !.child = FALSE],
          result |-> IF st = "exit0" THEN "SUCCESS"
                     ELSE IF st = "exit1" /\ relay_result = 1 THEN "SUCCESS"
                     ELSE "ERROR_GENERAL"]

RelayEvents ==
    { [kind |-> x, raw |-> << >>] :
        x \in {"child_exit", "timeout", "peer_closed", "drain_timeout", "idle", "pipe_eof"} }
    \cup { [kind |-> "pipe_data", raw |-> <<97, TELNET_IAC>>] }
    \cup { [kind |-> "data", raw |-> r] : r \in RelayReads }

(* relay_data_pipes: 1 or -1 when the iteration returns, 0 when it goes on *)
RelayResult(ev, cancel, binary_mode_ended) ==
    IF ev.kind = "child_exit" THEN 1
    ELSE IF ev.kind = "timeout" THEN 0 - 1
    ELSE IF cancel THEN 0 - 1
    ELSE IF ev.kind = "peer_closed" THEN 0 - 1
    ELSE IF binary_mode_ended /\ ev.kind = "drain_timeout" THEN 1
    ELSE IF ev.kind = "pipe_eof" THEN 1
    ELSE 0

(* is the socket read in this iteration: select watches it only while      *)
(* binary_mode_ended is false                                              *)
RelaySocketRead_Always(ev, binary_mode_ended) == ev.kind = "data"

RelaySocketRead(ev, binary_mode_ended) == ev.kind = "data" /\ ~binary_mode_ended

(* the clean bytes written to the stdin pipe after a socket read, when the *)
(* read ended BINARY mode (mode_changed_to_text) and when it did not       *)
RelayToChild(out, mode_changed_to_text) == out

(* what one write() on a non-blocking descriptor does with the bytes      *)
(* handed to it: it takes all, it takes all but the last (a short write),  *)
(* or it takes none and fails with EAGAIN; the relay goes on in each case  *)
WriteOutcomes == {"all", "short", "eagain"}

WriteTaken(bytes, w) ==
    IF w = "all" \/ bytes = << >> THEN bytes
    ELSE IF w = "short" THEN (IF Len(bytes) >= 2 THEN Front(bytes) ELSE bytes)
    ELSE << >>

(* the iteration goes on: r is what the Framer made of the socket read, w  *)
(* what the write() of this iteration does                                 *)
RelayGoOn(ev, r, read, mode_changed_to_text, w) ==
    /\ tn' = r.tn
    /\ wire' = IF ev.kind = "pipe_data" THEN telnet_prepare_output(ev.raw)
               ELSE r.sent
    /\ (read /\ r.out # << >>) \/ ev.kind = "pipe_data" \/ w = "all"
    /\ sup' = [sup EXCEPT !.binary_mode_ended = @ \/ mode_changed_to_text,
                          !.sock_read = IF read THEN ev.raw ELSE << >>,
                          !.child_written = IF read
                                            THEN RelayToChild(r.out, mode_changed_to_text)
                                            ELSE << >>,
                          !.pipe_read = IF ev.kind = "pipe_data" THEN ev.raw ELSE << >>,
                          !.child_taken = IF read
                                          THEN WriteTaken(RelayToChild(r.out, mode_changed_to_text), w)
                                          ELSE << >>,
                          !.sock_taken = IF ev.kind = "pipe_data"
                                         THEN WriteTaken(telnet_prepare_output(ev.raw), w)
                                         ELSE << >>]
    /\ UNCHANGED <<transfer, pc>>

RelayIteration(ev, st, rr, r, read, w) ==
    IF rr # 0
    THEN LET end == ChildEnd(rr, st, g_transfer_cancel_requested, transfer)
         IN  /\ rr = 1 => st # "killed"
             /\ transfer' = end.transfer
             /\ sup' = [sup EXCEPT !.result = end.result,
                                   !.sock_read = << >>, !.child_written = << >>,
                                   !.pipe_read = << >>,
                                   !.child_taken = << >>, !.sock_taken = << >>]
             /\ pc' = "exit"
             /\ wire' = << >>
             /\ w = "all"
             /\ UNCHANGED tn
    ELSE /\ st = "exit0"
         /\ RelayGoOn(ev, r, read,
                      /\ tn.binary_remote /\ tn.binary_local
                      /\ ~(r.tn.binary_remote /\ r.tn.binary_local),
                      w)

(* one iteration of relay_data_pipes; when it returns, the rest of         *)
(* execute_external_program                                                *)
SupRelay ==
    \E ev \in RelayEvents, st \in ChildStatuses, w \in WriteOutcomes :
        /\ pc = "relay"
        /\ ev.kind = "drain_timeout" => sup.binary_mode_ended
        /\ RelayIteration(ev, st,
                          RelayResult(ev, g_transfer_cancel_requested, sup.binary_mode_ended),
                          IF RelaySocketRead(ev, sup.binary_mode_ended)
                          THEN telnet_process_input(tn, ev.raw, 2 * BUFFER_SIZE)
                          ELSE [tn |-> tn, out |-> << >>, sent |-> << >>, events |-> << >>],
                          RelaySocketRead(ev, sup.binary_mode_ended),
                          w)
        /\ UNCHANGED <<mode, g_transfer_cancel_requested, g_running_local, early,
                       fromPending, pending_data>>
        /\ UNCHANGED <<detVars, frmVars, engineVars>>

(* a variant of the first exit step that restores the options and leaves   *)
(* the detectors as the transfer left them                                 *)
SupExit_RestoreFirst ==
    /\ pc = "exit"
    /\ LET tr == transfer_exit_mode(transfer)
           r == telnet_restore_state(tn, tr.saved)
       IN  /\ transfer' = tr
           /\ tn' = r.tn
           /\ wire' = r.sent
           /\ sup' = [sup EXCEPT !.error = TransferError(sup.result, g_transfer_cancel_requested),
                                 !.flush_attempts = 0]
    /\ pc' = "restore"
    /\ UNCHANGED <<mode, g_transfer_cancel_requested, g_running_local, early,
                   fromPending, pending_data>>
    /\ UNCHANGED <<detVars, frmVars, engineVars>>

(* otelnet_execute_transfer after the dispatch: error classification,      *)
(* transfer_exit_mode, then zmodem_ / xmodem_ / ymodem_detector_init       *)
SupExit ==
    /\ pc = "exit"
    /\ transfer' = transfer_exit_mode(transfer)
    /\ sup' = [sup EXCEPT !.error = TransferError(sup.result, g_transfer_cancel_requested),
                          !.flush_attempts = 0]
    /\ zmodem_detector' = zmodem_detector_init
    /\ xmodem_detector' = xmodem_detector_init
    /\ ymodem_detector' = ymodem_detector_init
    /\ pc' = "restore"
    /\ UNCHANGED <<tn, mode, wire, g_transfer_cancel_requested, g_running_local, early,
                   fromPending, pending_data>>
    /\ UNCHANGED <<frmVars, engineVars>>

(* the next exit step: telnet_restore_state with the snapshot of entry     *)
SupRestore ==
    /\ pc = "restore"
    /\ LET r == telnet_restore_state(tn, transfer.saved)
       IN  /\ tn' = r.tn
           /\ wire' = r.sent
    /\ pc' = "flush"
    /\ UNCHANGED <<mode, transfer, sup, g_transfer_cancel_requested, g_running_local,
                   early, fromPending, pending_data>>
    /\ UNCHANGED <<detVars, frmVars, engineVars>>

(* the flush loop, in which the socket has stale bytes for the first       *)
(* stale reads (they are dropped as recv() returned them)                  *)
SupFlush ==
    \E stale \in FlushCounts, bytes \in FlushReads :
        /\ pc = "flush"
        /\ sup' = [sup EXCEPT !.flush_attempts =
                                  IF ~tn.fd_open THEN 0
                                  ELSE IF stale < MAX_FLUSH_ATTEMPTS THEN stale
                                  ELSE MAX_FLUSH_ATTEMPTS,
                              !.flushed = Flushed(tn, stale, bytes)]
        /\ pc' = "leave"
        /\ wire' = << >>
        /\ UNCHANGED <<tn, mode, transfer, g_transfer_cancel_requested, g_running_local,
                       early, fromPending, pending_data>>
        /\ UNCHANGED <<detVars, frmVars, engineVars>>

(* an end of the call that leaves the application mode as the transfer   *)
(* set it                                                                  *)
SupLeave_KeepMode ==
    /\ pc = "leave"
    /\ g_transfer_cancel_requested' = FALSE
    /\ pc' = "returned"
    /\ UNCHANGED <<tn, mode, transfer, sup, wire, g_running_local, early, fromPending,
                   pending_data>>
    /\ UNCHANGED <<detVars, frmVars, engineVars>>

(* the end of the call: transfer_clear_cancel, then the mode is CLIENT     *)
(* again and the call returns                                              *)
SupLeave ==
    /\ pc = "leave"
    /\ g_transfer_cancel_requested' = FALSE
    /\ mode' = "CLIENT"
    /\ pc' = "returned"
    /\ UNCHANGED <<tn, transfer, sup, wire, g_running_local, early, fromPending,
                   pending_data>>
    /\ UNCHANGED <<detVars, frmVars, engineVars>>

(* the caller of otelnet_execute_transfer resumes the session loop *)
SupReturn ==
    /\ pc = "returned"
    /\ pc' = "session"
    /\ sup' = [sup_none EXCEPT !.calls = sup.calls]
    /\ wire' = << >>
    /\ early' = << >>
    /\ fromPending' = << >>
    /\ UNCHANGED <<tn, mode, transfer, g_transfer_cancel_requested, g_running_local,
                   pending_data>>
    /\ UNCHANGED <<detVars, frmVars, engineVars>>

Next ==
    \/ otelnet_process_telnet
    \/ otelnet_enter_console_mode
    \/ otelnet_exit_console_mode
    \/ ConsoleTransfer
    \/ signal_handler
    \/ SupDrain
    \/ SupDispatchKermit
    \/ SupDispatchModem
    \/ SupKermitPass
    \/ SupRelay
    \/ SupExit
    \/ SupRestore
    \/ SupFlush
    \/ SupLeave
    \/ SupReturn

Spec == Init /\ [][Next]_vars

(* ======================================================================= *)
(* A transfer request made in any state of the session or of a transfer    *)
(* ======================================================================= *)
RequestTelnets ==
    { telnet_init,
      telnet_connect(telnet_init).tn,
      telnet_process_input(telnet_connect(telnet_init).tn,
                           <<TELNET_IAC, TELNET_DONT, TELOPT_BINARY,
                             TELNET_IAC, TELNET_DO, TELOPT_BINARY,
                             TELNET_IAC, TELNET_WILL, TELOPT_BINARY>>, BUFFER_SIZE).tn }

(* Transfer State outside a transfer, and as entry leaves it *)
RequestTransfers ==
    { transfer_init }
    \cup { [transfer_enter_mode(transfer_init, p).state EXCEPT
                !.filename = f, !.saved = telnet_save_state(t)] :
             p \in {"KERMIT_RECV", "ZMODEM_SEND"}, f \in {"", "f"}, t \in RequestTelnets }

AllRequests ==
    ConsoleRequests
    \cup { [protocol |-> "ZMODEM_RECV", filename |-> "", multi |-> FALSE],
           [protocol |-> "XMODEM_SEND", filename |-> "f", multi |-> FALSE] }

RequestInit ==
    /\ tn \in RequestTelnets
    /\ negIdle
    /\ frmIdle
    /\ kermitIdle
    /\ mode \in {"CLIENT", "CONSOLE", "TRANSFER"}
    /\ transfer \in RequestTransfers
    /\ mode = "TRANSFER" => transfer.active
    /\ transfer.active => tn.fd_open
    /\ g_transfer_cancel_requested = FALSE
    /\ g_running_local = TRUE
    /\ \E enabled \in BOOLEAN :
          /\ ~enabled => transfer.active /\ transfer.protocol \in KermitProtocols
          /\ zmodem_detector = zmodem_detector_set_enabled(zmodem_detector_init, enabled)
          /\ xmodem_detector = xmodem_detector_set_enabled(xmodem_detector_init, enabled)
          /\ ymodem_detector = ymodem_detector_set_enabled(ymodem_detector_init, enabled)
    /\ pc = "session"
    /\ sup = sup_none
    /\ wire = << >>
    /\ early = << >>
    /\ fromPending = << >>

(* otelnet_execute_transfer / _multi called in that state, up to the drain *)
RequestCall ==
    \E rq \in AllRequests :
        /\ pc = "session"
        /\ StartTransfer(tn, rq, << >>)
        /\ UNCHANGED <<mode, g_transfer_cancel_requested, g_running_local, pending_data>>
        /\ UNCHANGED <<detVars, frmVars, engineVars>>

RequestNext == RequestCall

SpecRequest == RequestInit /\ [][RequestNext]_vars

(* ======================================================================= *)
(* telnet_escape_iac and telnet_unescape_iac applied to byte sequences     *)
(* ======================================================================= *)
MaxCodec == 4

(* a data byte, 0xFF, and a command byte that may follow 0xFF *)
CodecAlphabet == {97, TELNET_IAC, TELNET_WILL}

(* output_max: room for one byte only, or room for everything *)
CodecRooms == {1, BUFFER_SIZE}

EscapeInit ==
    /\ \E input \in {<< >>} \cup Chunks(CodecAlphabet, MaxCodec), room \in CodecRooms :
          codec = [codec_none EXCEPT !.input = input, !.bytes = input,
                                     !.output_max = room]
    /\ negLog = << >>
    /\ items = << >>
    /\ fio = fio_none
    /\ watch = watch_none
    /\ tn = telnet_init
    /\ frmIdle
    /\ kermitIdle
    /\ supIdle

EscapeCall ==
    /\ Len(codec.calls) < 2
    /\ codec.ret >= 0
    /\ LET r == telnet_escape_iac(codec.bytes, codec.output_max)
       IN  codec' = [codec EXCEPT !.bytes = r.out, !.ret = r.ret,
                                  !.calls = Append(@, "escape")]
    /\ UNCHANGED <<tn, negLog, items, fio, watch, tn0, stream, clean, events>>
    /\ UNCHANGED kermitVars
    /\ UNCHANGED supVars

UnescapeCall ==
    /\ Len(codec.calls) < 2
    /\ codec.ret >= 0
    /\ LET r == telnet_unescape_iac(codec.bytes, codec.output_max, codec.iac_state)
       IN  codec' = [codec EXCEPT !.bytes = r.out, !.ret = r.ret,
                                  !.iac_state = r.iac_state,
                                  !.calls = Append(@, "unescape")]
    /\ UNCHANGED <<tn, negLog, items, fio, watch, tn0, stream, clean, events>>
    /\ UNCHANGED kermitVars
    /\ UNCHANGED supVars

(* telnet_prepare_output on the bytes at hand *)
PrepareCall ==
    /\ Len(codec.calls) < 2
    /\ codec.ret >= 0
    /\ LET r == telnet_prepare_output_into(codec.bytes, codec.output_max)
       IN  codec' = [codec EXCEPT !.bytes = r.out, !.ret = r.ret,
                                  !.calls = Append(@, "prepare")]
    /\ UNCHANGED <<tn, negLog, items, fio, watch, tn0, stream, clean, events>>
    /\ UNCHANGED kermitVars
    /\ UNCHANGED supVars

(* binary_mode_escape on the bytes at hand *)
BinaryEscapeCall ==
    /\ Len(codec.calls) < 2
    /\ codec.ret >= 0
    /\ LET r == binary_mode_escape(codec.bytes, codec.output_max)
       IN  codec' = [codec EXCEPT !.bytes = r.out, !.ret = r.ret,
                                  !.calls = Append(@, "binary_escape")]
    /\ UNCHANGED <<tn, negLog, items, fio, watch, tn0, stream, clean, events>>
    /\ UNCHANGED kermitVars
    /\ UNCHANGED supVars

EscapeNext == EscapeCall \/ UnescapeCall \/ PrepareCall \/ BinaryEscapeCall

SpecEscape == EscapeInit /\ [][EscapeNext]_vars

(* ======================================================================= *)
(* Framer fed the serialization of events                                  *)
(* ======================================================================= *)
MaxItems == 3

(* events a peer may put on the wire: runs of data bytes (with 0xFF, with  *)
(* CR), negotiations, subnegotiations (TTYPE SEND with an embedded 0xFF,   *)
(* NAWS with 0xFF and 0xF0 in its payload)                                 *)
WireItems ==
    { [kind |-> "data", bytes |-> <<97>>],
      [kind |-> "data", bytes |-> <<TELNET_IAC>>],
      [kind |-> "data", bytes |-> <<97, TELNET_IAC, TELNET_SE>>],
      [kind |-> "data", bytes |-> <<CR>>],
      [kind |-> "data", bytes |-> <<CR, LF>>],
      [kind |-> "neg", bytes |-> <<TELNET_WILL, TELOPT_BINARY>>],
      [kind |-> "neg", bytes |-> <<TELNET_WONT, TELOPT_BINARY>>],
      [kind |-> "neg", bytes |-> <<TELNET_DO, TELNET_IAC>>],
      [kind |-> "sb", bytes |-> <<TELOPT_TTYPE, TTYPE_SEND, TELNET_IAC>>],
      [kind |-> "sb", bytes |-> <<TELOPT_NAWS, TELNET_IAC, TELNET_SE>>] }

(* the bytes an event is on the wire, as the serializers of telnet.c build *)
(* them on an open connection                                              *)
Serialize(it) ==
    LET peer == [telnet_init EXCEPT !.fd_open = TRUE]
    IN  CASE it.kind = "data" -> telnet_prepare_output(it.bytes)
          [] it.kind = "neg" -> telnet_send_negotiate(peer, it.bytes[1], it.bytes[2])
          [] OTHER -> telnet_send_subnegotiation(peer, it.bytes)

RoundTripInit ==
    /\ tn0 = telnet_connect(telnet_init).tn
    /\ tn = tn0
    /\ stream = << >>
    /\ clean = << >>
    /\ events = << >>
    /\ negIdle
    /\ kermitIdle
    /\ supIdle

(* the peer sends one more event; the session reads it in one call; the    *)
(* item remembers whether the peer was in BINARY when it was sent          *)
FeedItem ==
    \E it \in WireItems :
        /\ Len(items) < MaxItems
        /\ LET r == telnet_process_input(tn, Serialize(it), BUFFER_SIZE)
           IN  /\ tn' = r.tn
               /\ clean' = clean \o r.out
               /\ events' = events \o r.events
        /\ stream' = stream \o Serialize(it)
        /\ items' = Append(items, [kind |-> it.kind, bytes |-> it.bytes,
                                    binary |-> tn.binary_remote])
        /\ UNCHANGED <<tn0, negLog, codec, fio, watch>>
        /\ UNCHANGED kermitVars
        /\ UNCHANGED supVars

RoundTripNext == FeedItem

SpecRoundTrip == RoundTripInit /\ [][RoundTripNext]_vars

(* ======================================================================= *)
(* Properties                                                              *)
(* ======================================================================= *)
DuplicateRequest ==
    /\ Len(negLog) = 2
    /\ SameRequest(negLog[1], negLog[2])
    /\ negLog[2].command \in {TELNET_WILL, TELNET_DO}

(* number of negotiation replies (IAC <command> <option>) in the bytes sent *)
Replies(sent) == IF sent = << >> THEN 0 ELSE 1

SupportedRequest(e) ==
    \/ e.command = TELNET_WILL /\ e.option \in WillSupported
    \/ e.command = TELNET_DO /\ e.option \in DoSupported

Refusal(e) ==
    <<TELNET_IAC, IF e.command = TELNET_WILL THEN TELNET_DONT ELSE TELNET_WONT, e.option>>

(* C1 as stated: for every option code o in 0..255, WILL o twice (or DO o *)
(* twice) in succession draws at most one reply in total, and the second, *)
(* duplicate command puts no bytes on the wire.                           *)
C1_DuplicateNeverAnswered ==
    DuplicateRequest =>
        /\ negLog[2].sent = << >>
        /\ Replies(negLog[1].sent) + Replies(negLog[2].sent) <= 1

(* C1, amended: for an option the negotiator supports, a duplicate WILL o *)
(* (or DO o) puts no bytes on the wire and the pair draws at most one     *)
(* reply; for an unsupported option every WILL o / DO o is refused with   *)
(* exactly DONT o / WONT o.                                               *)
C1_DuplicateSupportedSilent ==
    DuplicateRequest =>
        IF SupportedRequest(negLog[2])
        THEN /\ negLog[2].sent = << >>
             /\ Replies(negLog[1].sent) + Replies(negLog[2].sent) <= 1
        ELSE /\ negLog[1].sent = Refusal(negLog[1])
             /\ negLog[2].sent = Refusal(negLog[2])

(* C1 witness: WILL BINARY arrived twice; the first was answered DO BINARY *)
C1_Witness ==
    /\ DuplicateRequest
    /\ negLog[2].command = TELNET_WILL
    /\ negLog[2].option = TELOPT_BINARY
    /\ negLog[1].sent = <<TELNET_IAC, TELNET_DO, TELOPT_BINARY>>
    /\ negLog[2].sent = << >>

(* C2: however the input stream is split into successive Framer calls,    *)
(* the concatenated clean output and the sequence of negotiation and      *)
(* subnegotiation events equal those of a single call on the whole        *)
(* stream (so nothing emitted earlier is retracted or reordered), and the *)
(* Framer ends in the same state.                                         *)
C2_SplitIndependent ==
    LET whole == telnet_process_input(tn0, stream, BUFFER_SIZE)
    IN  /\ clean = whole.out
        /\ events = whole.events
        /\ tn = whole.tn

(* C3 as stated: once the raw socket stream of a Kermit transfer has held *)
(* IAC followed by a non-IAC byte (the peer left BINARY; IAC WONT BINARY  *)
(* and IAC DONT BINARY included, however the bytes are split over reads), *)
(* the rxd call that read the byte returned -1 and the engine does not    *)
(* end in success.                                                        *)
C3_BinaryLossAborts ==
    peerLeftBinary => (kctx.result \notin {"RUNNING", "SUCCESS"})

(* C2 witness: a CR LF pair and a negotiation were both cut by a call     *)
(* boundary: the stream holds CR LF and a WILL event, the Framer was      *)
(* called at least three times                                            *)
C2_Witness ==
    /\ Len(stream) = MaxStream
    /\ \E i \in 1..(Len(clean) - 1) : clean[i] = CR /\ clean[i + 1] = LF
    /\ Len(events) >= 1
    /\ ~tn0.binary_remote

(* C4: a transfer request made while Transfer State is active returns      *)
(* ERROR_GENERAL and leaves Transfer State, the telnet_t (registry and     *)
(* flags), the application mode and the three detectors as they were, and  *)
(* writes nothing to the socket                                            *)
C4_ActiveRequestRejected ==
    [][ (pc = "session" /\ pc' # "session" /\ transfer.active)
        => /\ pc' = "returned"
           /\ sup'.result = "ERROR_GENERAL"
           /\ ~sup'.entered
           /\ transfer' = transfer
           /\ tn' = tn
           /\ mode' = mode
           /\ zmodem_detector' = zmodem_detector
           /\ xmodem_detector' = xmodem_detector
           /\ ymodem_detector' = ymodem_detector
           /\ wire' = << >> ]_vars

C4_Witness ==
    /\ pc = "returned"
    /\ sup.result = "ERROR_GENERAL"
    /\ transfer.active
    /\ tn.fd_open

(* C5: whenever a call that got past supervisor entry returns, whatever    *)
(* its result, the cancellation flag is clear, Transfer State is inactive  *)
(* and the mode is CLIENT                                                  *)
C5_TransferEndsClean ==
    [][ (pc # "returned" /\ pc' = "returned" /\ sup'.entered)
        => /\ ~g_transfer_cancel_requested'
           /\ ~transfer'.active
           /\ mode' = "CLIENT" ]_vars

(* a cancelled transfer has returned *)
C5_Witness ==
    /\ pc = "returned"
    /\ sup.entered
    /\ sup.error = "USER_CANCEL"
    /\ ~g_transfer_cancel_requested

(* C6: with the cancellation flag set, the next iteration of the Kermit    *)
(* engine loop or of the relay loop leaves the loop; the engine hands on   *)
(* no packet and does not report success, the relay leaves no child        *)
C6_CancelStopsLoops ==
    [][ (g_transfer_cancel_requested /\ pc \in {"kermit", "relay"})
        => /\ pc' = "exit"
           /\ pc = "kermit" => fromPending' = fromPending /\ sup'.result # "SUCCESS"
           /\ pc = "relay" => ~transfer'.child ]_vars

(* C7: while Transfer State is active the three detectors are disabled and *)
(* their repeat counters are zero                                          *)
C7_DetectorsPausedWhileActive ==
    transfer.active
    => /\ ~zmodem_detector.enabled
       /\ ~xmodem_detector.enabled
       /\ ~ymodem_detector.enabled
       /\ xmodem_detector.repeat_count = 0
       /\ ymodem_detector.c_repeat_count = 0

Contains(s, pattern) ==
    \E i \in 1..(Len(s) - Len(pattern) + 1) : SubSeq(s, i, i + Len(pattern) - 1) = pattern

(* C8: when the connection was not BINARY in both directions at entry,     *)
(* the bytes on the wire when the drain begins hold both IAC WILL BINARY   *)
(* and IAC DO BINARY                                                       *)
C8_RequestsBothDirections ==
    (/\ pc = "drain"
     /\ sup.drain_count = 3
     /\ ~(transfer.saved.binary_local /\ transfer.saved.binary_remote))
    => /\ Contains(wire, <<TELNET_IAC, TELNET_WILL, TELOPT_BINARY>>)
       /\ Contains(wire, <<TELNET_IAC, TELNET_DO, TELOPT_BINARY>>)

(* the early packet as the engine should see it: without its SOH mark *)
StripSOH(s) == IF s # << >> /\ s[1] = SOH THEN Tail(s) ELSE s

(* C9: during a Kermit transfer the bytes rxd has handed over from         *)
(* pending_data are the early packet bytes in arrival order, each once,    *)
(* and all of them once pending_data is empty                              *)
C9_EarlyPacketDelivered ==
    (pc = "kermit")
    => /\ IsPrefix(fromPending, StripSOH(early))
       /\ pending_data = << >> => fromPending = StripSOH(early)

(* C10: after the exit sequence of a call that got past entry, on an open  *)
(* connection, the seven flags equal the snapshot taken at entry           *)
C10_SnapshotRestored ==
    (pc \in {"flush", "returned"} /\ sup.entered /\ tn.fd_open)
    => telnet_save_state(tn) = transfer.saved

(* the peer left BINARY during a relay that was entered in BINARY, and the *)
(* exit sequence has asked for it again                                    *)
C10_Witness ==
    /\ pc = "flush"
    /\ sup.binary_mode_ended
    /\ transfer.saved.binary_remote
    /\ Contains(wire, <<TELNET_IAC, TELNET_DO, TELOPT_BINARY>>)

(* C11: a pass that counts one more consecutive timeout, or one more      *)
(* consecutive NAK, leaves the engine running as long as the count does    *)
(* not exceed its limit (5 timeouts, 10 NAKs)                              *)
C11_AbortOnlyBeyondLimits ==
    [][ (kctx.result = "RUNNING")
        => /\ ( /\ kctx'.consecutive_timeouts = kctx.consecutive_timeouts + 1
                /\ kctx'.consecutive_timeouts <= MAX_CONSECUTIVE_TIMEOUTS )
              => kctx'.result = "RUNNING"
           /\ ( /\ kctx'.consecutive_naks = kctx.consecutive_naks + 1
                /\ kctx'.consecutive_naks <= MAX_CONSECUTIVE_NAKS )
              => kctx'.result = "RUNNING" ]_vars

AfterPair(t, next, rest) ==
    telnet_process_input([t EXCEPT !.state = next], rest, BUFFER_SIZE)

(* the clean bytes a CR pair stands for *)
PairClean(c) == IF c = LF THEN <<CR, LF>> ELSE <<CR>>

RECURSIVE PairedIAC(_)
PairedIAC(b) ==
    IF b = << >> THEN TRUE
    ELSE IF b[1] # TELNET_IAC THEN PairedIAC(Tail(b))
    ELSE Len(b) >= 2 /\ b[2] = TELNET_IAC /\ PairedIAC(Tail(Tail(b)))

(* C14: whenever the output buffer had room, unescaping escape(D) from     *)
(* carry state 0 gives D back and ends in carry state 0, and escaping      *)
(* unescape(B) gives B back when B is made of non-0xFF bytes and doubled   *)
(* 0xFF pairs                                                              *)
C14_EscapeUnescapeInverse ==
    /\ (codec.calls = <<"escape", "unescape">> /\ codec.ret >= 0)
       => codec.bytes = codec.input /\ codec.iac_state = 0
    /\ (codec.calls = <<"unescape", "escape">> /\ codec.ret >= 0 /\ PairedIAC(codec.input))
       => codec.bytes = codec.input

(* a sequence holding 0xFF went through escape and back *)
C14_Witness ==
    /\ codec.calls = <<"escape", "unescape">>
    /\ codec.ret >= 0
    /\ codec.input = <<97, TELNET_IAC, TELNET_WILL, TELNET_IAC>>
    /\ codec.bytes = codec.input

(* the data bytes, and the negotiation / subnegotiation events, of a       *)
(* sequence of items                                                       *)
RECURSIVE ItemsData(_)
ItemsData(its) ==
    IF its = << >> THEN << >>
    ELSE (IF its[1].kind = "data" THEN its[1].bytes ELSE << >>) \o ItemsData(Tail(its))

RECURSIVE ItemsEvents(_)
ItemsEvents(its) ==
    IF its = << >> THEN << >>
    ELSE (CASE its[1].kind = "neg" -> << its[1].bytes >>
            [] its[1].kind = "sb" -> << <<TELNET_SB>> \o its[1].bytes >>
            [] OTHER -> << >>) \o ItemsEvents(Tail(its))

RoundTrip ==
    /\ clean = ItemsData(items)
    /\ events = ItemsEvents(items)
    /\ tn.state = "DATA"
    /\ tn.sb_buffer = << >>

(* a data byte CR sent while the peer is not in BINARY *)
BareCR(it) ==
    it.kind = "data" /\ ~it.binary /\ \E i \in 1..Len(it.bytes) : it.bytes[i] = CR

(* C15 as stated: the Framer gives back every serialized event sequence    *)
(* and is in state DATA again                                              *)
C15_RoundTripAll == items # << >> => RoundTrip

(* C15: the Framer gives back every serialized event sequence, payloads    *)
(* unescaped, and is in state DATA again, when no data byte CR was sent    *)
(* with the peer not in BINARY                                             *)
C15_RoundTripNoBareCR ==
    (items # << >> /\ \A i \in 1..Len(items) : ~BareCR(items[i])) => RoundTrip

(* FF FA 18 01 FF FF FF F0 was fed and delivered payload 18 01 FF, after   *)
(* escaped data                                                            *)
C15_Witness ==
    /\ Len(items) = 2
    /\ items[1].bytes = <<97, TELNET_IAC, TELNET_SE>>
    /\ stream = <<97, TELNET_IAC, TELNET_IAC, TELNET_SE,
                  TELNET_IAC, TELNET_SB, TELOPT_TTYPE, TTYPE_SEND,
                  TELNET_IAC, TELNET_IAC, TELNET_IAC, TELNET_SE>>
    /\ events = << <<TELNET_SB, TELOPT_TTYPE, TTYPE_SEND, TELNET_IAC>> >>
    /\ clean = <<97, TELNET_IAC, TELNET_SE>>
    /\ tn.state = "DATA"

StripEOM(s) == IF s # << >> /\ Last(s) \in {EOM_CR, EOM_LF} THEN Front(s) ELSE s

(* the bytes rxd takes out of pending_data in one call *)
PendingTaken(pending, len) ==
    TakeFirst(pending, IF Len(pending) < len THEN Len(pending) ELSE len)

(* C16: a non-empty sequence rxd returns is what it read from the socket   *)
(* (after IAC unescaping), or what it took from pending_data, less a       *)
(* leading SOH and less one trailing EOM                                   *)
C16_RxdStripsFraming ==
    /\ []((rx.from = "socket" /\ rx.ret > 0)
          => rx.buf = StripEOM(StripSOH(binary_mode_unescape(rawIn, P_PKTLEN * 2).out)))
    /\ [][ (pending_data' # pending_data /\ rx'.ret > 0)
           => /\ rx'.from = "pending"
              /\ rx'.buf = StripEOM(StripSOH(PendingTaken(pending_data, P_PKTLEN))) ]_vars

(* a step has changed the locals of the call; a signal_handler step only   *)
(* notes its arrival in cancel_in_call                                     *)
RelayStepped == [sup' EXCEPT !.cancel_in_call = sup.cancel_in_call] # sup

C18_TransferFailureKeepsSession ==
    (pc = "returned" /\ sup.entered /\ sup.error \notin {"NONE", "NETWORK"})
    => g_running_local /\ mode = "CLIENT"


(* the command the negotiator has just handled, with the bytes it sent *)
Handled == Last(negLog')

(* C19: on WONT o with the remote bit of o enabled the negotiator clears   *)
(* that bit and sends exactly DONT o; on DONT o with the local bit of o    *)
(* enabled it clears that bit and sends exactly WONT o; when the bit is    *)
(* not enabled the negotiator's state is unchanged and nothing is sent     *)
C19_RefusalOnlyOnChange ==
    [][ /\ Handled.command = TELNET_WONT
           => IF Handled.option \in tn.remote_options
              THEN /\ tn'.remote_options = tn.remote_options \ {Handled.option}
                   /\ tn'.local_options = tn.local_options
                   /\ Handled.sent = <<TELNET_IAC, TELNET_DONT, Handled.option>>
              ELSE /\ tn' = tn
                   /\ Handled.sent = << >>
        /\ Handled.command = TELNET_DONT
           => IF Handled.option \in tn.local_options
              THEN /\ tn'.local_options = tn.local_options \ {Handled.option}
                   /\ tn'.remote_options = tn.remote_options
                   /\ Handled.sent = <<TELNET_IAC, TELNET_WONT, Handled.option>>
              ELSE /\ tn' = tn
                   /\ Handled.sent = << >> ]_vars


(* the peer withdrew BINARY after having been granted it: the remote bit   *)
(* is cleared and DONT BINARY was sent; the WONT BINARY that follows finds *)
(* the bit clear and is not answered                                       *)
C19_Witness ==
    /\ Len(negLog) = 2
    /\ negLog[1].command = TELNET_WONT
    /\ negLog[1].option = TELOPT_BINARY
    /\ negLog[1].sent = <<TELNET_IAC, TELNET_DONT, TELOPT_BINARY>>
    /\ negLog[2].command = TELNET_WONT
    /\ negLog[2].option = TELOPT_BINARY
    /\ negLog[2].sent = << >>
    /\ TELOPT_BINARY \notin tn.remote_options
    /\ ~tn.binary_remote


(* ======================================================================= *)
(* The engine's file callbacks on one transfer context                     *)
(* ======================================================================= *)
MaxFileCalls == 3

(* names the engine passes to openf, as the peer's F packet or the send    *)
(* list gives them: none, a base name, an absolute path, a path through    *)
(* the parent directory, a path into a subdirectory                        *)
FileNames == { << >>, <<102>>, <<SLASH, 102>>, <<46, 46, SLASH, 102>>,
               <<100, SLASH, 102>> }

CloseStatuses == {0, STATUS_D, STATUS_B, STATUS_Z}

(* 1 = the input file of a send, 2 = the output file of a receive *)
FileModes == {1, 2}

(* the context as kermit_client_send or kermit_client_receive sets it up;  *)
(* k_data.ikeep is the engine's keep-incomplete flag                       *)
CloseInit ==
    /\ \E is_sending \in BOOLEAN, ikeep \in {0, 1} :
          fio = [fio_none EXCEPT !.ctx.is_sending = is_sending,
                                 !.ctx.send_file_absolute_path =
                                     IF is_sending THEN <<SLASH, 100, SLASH, 102>> ELSE << >>,
                                 !.ikeep = ikeep]
    /\ negLog = << >>
    /\ codec = codec_none
    /\ items = << >>
    /\ watch = watch_none
    /\ tn = telnet_init
    /\ frmIdle
    /\ kermitIdle
    /\ supIdle

FileOpen ==
    \E name \in FileNames, m \in FileModes, fopen_ok \in BOOLEAN :
        /\ fio.calls < MaxFileCalls
        /\ LET r == otelnet_kermit_openf(fio.ctx, name, m, fopen_ok)
           IN  fio' = [fio EXCEPT !.ctx = r.ctx,
                                  !.last = [call_none EXCEPT !.op = "openf", !.name = name,
                                                             !.mode = m, !.opened = r.opened,
                                                             !.ret = r.ret],
                                  !.calls = @ + 1]
        /\ UNCHANGED <<tn, negLog, codec, items, watch, tn0, stream, clean, events>>
        /\ UNCHANGED kermitVars
        /\ UNCHANGED supVars

FileClose ==
    \E status \in CloseStatuses, discard \in FileModes :
        /\ fio.calls < MaxFileCalls
        /\ LET r == otelnet_kermit_closef(fio.ctx, fio.ikeep, status, discard)
           IN  fio' = [fio EXCEPT !.ctx = r.ctx,
                                  !.last = [call_none EXCEPT !.op = "closef",
                                                             !.name = fio.ctx.current_filename,
                                                             !.status = status,
                                                             !.discard = discard,
                                                             !.had_file = fio.ctx.file,
                                                             !.unlinked = r.unlinked,
                                                             !.ret = r.ret],
                                  !.calls = @ + 1]
        /\ UNCHANGED <<tn, negLog, codec, items, watch, tn0, stream, clean, events>>
        /\ UNCHANGED kermitVars
        /\ UNCHANGED supVars

CloseNext == FileOpen \/ FileClose

SpecClose == CloseInit /\ [][CloseNext]_vars

MaxFeeds == 5

MaxClock == 9

(* NAK, 'C', a printable byte that is no trigger, a control byte *)
DetectAlphabet == {XMODEM_NAK, XMODEM_CRC, 97, NUL}

(* seconds between one call and the next *)
DetectGaps == {0, 1, XMODEM_YMODEM_DETECT_WINDOW + 1}

DetectInit ==
    /\ watch = watch_none
    /\ negLog = << >>
    /\ codec = codec_none
    /\ items = << >>
    /\ fio = fio_none
    /\ tn = telnet_init
    /\ frmIdle
    /\ kermitIdle
    /\ supIdle

(* the latest three bytes a detector was given since it last fired *)
Recent(recent, trigger, c, now) ==
    LET h == Append(IF trigger = "none" THEN recent ELSE << >>, [c |-> c, t |-> now])
    IN  IF Len(h) > XMODEM_YMODEM_MIN_REPEATS THEN Tail(h) ELSE h

(* a read of one clean byte, gap seconds after the previous one, is given  *)
(* to both detectors                                                       *)
DetectFeed ==
    \E c \in DetectAlphabet, gap \in DetectGaps :
        /\ watch.fed < MaxFeeds
        /\ watch.now + gap <= MaxClock
        /\ LET now == watch.now + gap
               x == xmodem_detect_trigger(xmodem_detector, <<c>>, now)
               y == ymodem_detect_trigger(ymodem_detector, <<c>>, now)
           IN  /\ xmodem_detector' = x.det
               /\ ymodem_detector' = y.det
               /\ watch' = [ now |-> now, fed |-> watch.fed + 1,
                             recent_x |-> Recent(watch.recent_x, watch.trigger_x, c, now),
                             recent_y |-> Recent(watch.recent_y, watch.trigger_y, c, now),
                             trigger_x |-> x.trigger, trigger_y |-> y.trigger ]
        /\ UNCHANGED <<tn, negLog, codec, items, fio, tn0, stream, clean, events>>
        /\ UNCHANGED kermitVars
        /\ UNCHANGED <<mode, transfer, g_transfer_cancel_requested, g_running_local,
                       zmodem_detector, pc, sup, wire, early, fromPending>>

DetectNext == DetectFeed

SpecDetect == DetectInit /\ [][DetectNext]_vars

(* the latest three bytes given to a detector since it last fired are all  *)
(* the trigger byte c and all arrived inside the detection window          *)
ThreeInWindow(recent, c) ==
    /\ Len(recent) = XMODEM_YMODEM_MIN_REPEATS
    /\ \A i \in 1..Len(recent) :
           /\ recent[i].c = c
           /\ watch.now - recent[i].t <= XMODEM_YMODEM_DETECT_WINDOW

(* C22: when the latest three bytes an enabled detector has been given are *)
(* the same trigger byte (NAK or 'C' for XMODEM, 'C' for YMODEM) and lie    *)
(* inside the 3-second window, the detector has fired "send" and its       *)
(* counters are reset, whatever trigger bytes came before the window       *)
C22_ThreeRepeatsFire ==
    /\ (ThreeInWindow(watch.recent_x, XMODEM_NAK) \/ ThreeInWindow(watch.recent_x, XMODEM_CRC))
       => /\ watch.trigger_x = "send"
          /\ xmodem_detector.repeat_count = 0
    /\ ThreeInWindow(watch.recent_y, XMODEM_CRC)
       => /\ watch.trigger_y = "send"
          /\ ymodem_detector.c_repeat_count = 0

(* a path names a file directly in the current working directory: it has   *)
(* no directory separator and is neither "." nor ".."                      *)
InWorkingDirectory(path) ==
    /\ path # << >>
    /\ \A i \in 1..Len(path) : path[i] # SLASH
    /\ path \notin {<<46>>, <<46, 46>>}

(* C21: whatever name openf is given with mode 2, the file it creates or   *)
(* truncates lies directly in the current working directory                *)
C21_ReceiveStaysInDirectory ==
    (fio.last.op = "openf" /\ fio.last.mode = 2 /\ fio.last.ret = 0)
    => InWorkingDirectory(fio.last.opened)


(* the handlers the session loop calls: otelnet_process_telnet on the      *)
(* socket, otelnet_process_stdin on the keyboard                           *)
SessionHandlers ==
    \/ otelnet_process_telnet
    \/ otelnet_enter_console_mode
    \/ otelnet_exit_console_mode
    \/ ConsoleTransfer

(* C23: while the mode is TRANSFER control is inside                       *)
(* otelnet_execute_transfer and no handler of the session loop can run, so *)
(* the session loop reads neither stdin nor the socket                     *)
C23_SessionIdleInTransfer ==
    mode = "TRANSFER" => pc # "session" /\ ~ENABLED SessionHandlers

(* the relay of a transfer has read the socket while the mode is TRANSFER *)
C23_Witness ==
    /\ mode = "TRANSFER"
    /\ pc = "relay"
    /\ sup.sock_read # << >>


(* C24: the bytes a step reads from the socket outside the Kermit engine   *)
(* go through the Framer, so the Option Negotiator and the replies on the  *)
(* wire are those of telnet_process_input on the bytes read: in the relay  *)
(* loop, and in the flush after the transfer                               *)
C24_EveryReadFramed ==
    [][ /\ (pc = "relay" /\ pc' = "relay" /\ RelayStepped)
           => tn' = telnet_process_input(tn, sup'.sock_read, 2 * BUFFER_SIZE).tn
        /\ (pc = "flush" /\ pc' = "leave")
           => /\ tn' = telnet_process_input(tn, sup'.flushed, BUFFER_SIZE).tn
              /\ wire' = telnet_process_input(tn, sup'.flushed, BUFFER_SIZE).sent ]_vars


(* ======================================================================= *)
(* Subnegotiation requests of the peer on one connection                   *)
(* ======================================================================= *)
MaxRequests == 5

(* TTYPE SEND, TSPEED SEND, and a TTYPE subnegotiation that is no request *)
SubnegRequests ==
    { <<TELOPT_TTYPE, TTYPE_SEND>>, <<TELOPT_TSPEED, TTYPE_SEND>>,
      <<TELOPT_TTYPE, TTYPE_IS, 65>> }

TtypeInit ==
    /\ tn = telnet_connect(telnet_init).tn
    /\ negIdle
    /\ frmIdle
    /\ kermitIdle
    /\ supIdle

(* the peer sends IAC SB <request> IAC SE; the session reads it in one     *)
(* call; items keeps each request with the bytes sent in reply             *)
SubnegRequest ==
    \E sb \in SubnegRequests :
        /\ Len(items) < MaxRequests
        /\ LET r == telnet_process_input(tn, Serialize([kind |-> "sb", bytes |-> sb]),
                                         BUFFER_SIZE)
           IN  /\ tn' = r.tn
               /\ items' = Append(items, [kind |-> "sb", bytes |-> sb, sent |-> r.sent])
        /\ UNCHANGED <<negLog, codec, fio, watch, tn0, stream, clean, events>>
        /\ UNCHANGED kermitVars
        /\ UNCHANGED supVars

TtypeNext == SubnegRequest

SpecTtype == TtypeInit /\ [][TtypeNext]_vars

(* ======================================================================= *)
(* An escaped stream arriving at otelnet_kermit_rxd in successive reads    *)
(* ======================================================================= *)
MaxSplitStream == 5

MaxSplitRead == 3

SplitAlphabet == {TELNET_IAC, 97, SOH}

SplitInit ==
    /\ tn = telnet_connect(telnet_init).tn
    /\ tn0 = tn
    /\ stream = << >>
    /\ clean = << >>
    /\ events = << >>
    /\ negIdle
    /\ kermitIdle
    /\ supIdle

(* one socket read of rxd given to binary_mode_unescape; stream is what    *)
(* the socket has delivered, clean the decoded bytes of all reads, events  *)
(* the decoded_len of each read (-1 and 0 make rxd return -1, which ends   *)
(* the transfer)                                                           *)
SplitRead ==
    \E raw_buf \in Chunks(SplitAlphabet, MaxSplitRead) :
        /\ Len(stream) + Len(raw_buf) <= MaxSplitStream
        /\ \A i \in DOMAIN events : events[i] > 0
        /\ LET u == binary_mode_unescape(raw_buf, P_PKTLEN * 2)
           IN  /\ clean' = clean \o u.out
               /\ events' = Append(events, u.ret)
        /\ stream' = stream \o raw_buf
        /\ UNCHANGED <<tn, tn0, negLog, auxVars>>
        /\ UNCHANGED kermitVars
        /\ UNCHANGED supVars

SplitNext == SplitRead

SpecSplit == SplitInit /\ [][SplitNext]_vars

IsTtypeSend(it) == it.bytes = <<TELOPT_TTYPE, TTYPE_SEND>>

(* how many of the first n requests were TTYPE SEND *)
RECURSIVE TtypeSends(_)
TtypeSends(n) ==
    IF n = 0 THEN 0 ELSE TtypeSends(n - 1) + (IF IsTtypeSend(items[n]) THEN 1 ELSE 0)

(* XTERM, VT100, ANSI *)
TtypeCycle(k) ==
    CASE k % 3 = 0 -> <<88, 84, 69, 82, 77>>
      [] k % 3 = 1 -> <<86, 84, 49, 48, 48>>
      [] OTHER -> <<65, 78, 83, 73>>

(* C25: the k-th TTYPE SEND of the connection (k from 0) is answered with  *)
(* IAC SB TTYPE IS <entry k mod 3 of XTERM, VT100, ANSI> IAC SE, and the   *)
(* position in the cycle is the number of requests so far modulo 3; other  *)
(* subnegotiations do not move it                                          *)
C25_TtypeCycles ==
    /\ \A i \in 1..Len(items) :
           IsTtypeSend(items[i])
           => items[i].sent = <<TELNET_IAC, TELNET_SB, TELOPT_TTYPE, TTYPE_IS>>
                              \o TtypeCycle(TtypeSends(i - 1))
                              \o <<TELNET_IAC, TELNET_SE>>
    /\ tn.ttype_index % 3 = TtypeSends(Len(items)) % 3

(* the fourth TTYPE SEND was answered XTERM again *)
C25_Witness ==
    /\ Len(items) >= 4
    /\ IsTtypeSend(items[Len(items)])
    /\ TtypeSends(Len(items)) = 4
    /\ items[Len(items)].sent = <<TELNET_IAC, TELNET_SB, TELOPT_TTYPE, TTYPE_IS,
                                   88, 84, 69, 82, 77, TELNET_IAC, TELNET_SE>>


(* each derived flag of the telnet_t t equals the registry bit it projects *)
Projections(t) ==
    /\ t.binary_local = (TELOPT_BINARY \in t.local_options)
    /\ t.binary_remote = (TELOPT_BINARY \in t.remote_options)
    /\ t.sga_local = (TELOPT_SGA \in t.local_options)
    /\ t.sga_remote = (TELOPT_SGA \in t.remote_options)
    /\ t.echo_remote = (TELOPT_ECHO \in t.remote_options)
    /\ t.linemode_active = (TELOPT_LINEMODE \in t.local_options)

(* C26: once the negotiator has handled a command that changed an option,  *)
(* every derived flag equals the registry bit it projects                  *)
C26_FlagsProjectRegistry ==
    [][ (tn'.local_options # tn.local_options \/ tn'.remote_options # tn.remote_options)
        => Projections(tn') ]_vars

(* C27: once DO BINARY has been handled binary_local is true, once WILL    *)
(* BINARY has been handled binary_remote is true, and each stays true      *)
(* until DONT BINARY (resp. WONT BINARY) is handled                        *)
C27_AgreedBinaryIsBinary ==
    [][ /\ (Handled.command = TELNET_DO /\ Handled.option = TELOPT_BINARY)
           => tn'.binary_local
        /\ (Handled.command = TELNET_WILL /\ Handled.option = TELOPT_BINARY)
           => tn'.binary_remote
        /\ (tn.binary_local
            /\ ~(Handled.command = TELNET_DONT /\ Handled.option = TELOPT_BINARY))
           => tn'.binary_local
        /\ (tn.binary_remote
            /\ ~(Handled.command = TELNET_WONT /\ Handled.option = TELOPT_BINARY))
           => tn'.binary_remote ]_vars


(* C28: in state SEENCR a byte other than NUL, LF or IAC makes the Framer  *)
(* emit CR and then treat the byte exactly as it would in state DATA; so   *)
(* a second CR leaves the Framer in SEENCR again and the stream 0D 0D 00   *)
(* of a peer that is not in BINARY yields the clean output 0D 0D.          *)
C28_SeenCrReprocesses ==
    /\ tn.state = "SEENCR" =>
         \A c \in FramerAlphabet \ {NUL, LF, TELNET_IAC} :
            LET got == telnet_process_input(tn, <<c>>, BUFFER_SIZE)
                asData == telnet_process_input([tn EXCEPT !.state = "DATA"], <<c>>, BUFFER_SIZE)
            IN  /\ got.tn = asData.tn
                /\ got.out = <<CR>> \o asData.out
                /\ got.sent = asData.sent
    /\ (stream = <<CR, CR, NUL>> /\ ~tn0.binary_remote) => clean = <<CR, CR>>


(* an escaped stream: every 0xFF of the data is doubled *)
RECURSIVE IsEscaped(_)
IsEscaped(s) ==
    IF s = << >> THEN TRUE
    ELSE IF s[1] # TELNET_IAC THEN IsEscaped(Tail(s))
    ELSE Len(s) >= 2 /\ s[2] = TELNET_IAC /\ IsEscaped(Tail(Tail(s)))

(* C29: the binary-mode unescape of the Kermit receive path does not       *)
(* depend on read boundaries: however an escaped stream is split into      *)
(* socket reads, no read is taken for a telnet command and the decoded     *)
(* bytes of the reads together are those of decoding the stream in one     *)
(* piece (FF | FF decodes to one FF).                                      *)
C29_UnescapeSplitIndependent ==
    IsEscaped(stream) =>
        /\ \A i \in DOMAIN events : events[i] > 0
        /\ clean = binary_mode_unescape(stream, P_PKTLEN * 2).out


(* the relay iteration read the socket and the Framer, handling a WONT     *)
(* BINARY or DONT BINARY of that read, switched a BINARY direction off     *)
RelayReadEndsBinary ==
    /\ pc = "relay" /\ pc' = "relay"
    /\ sup'.sock_read # << >>
    /\ \/ tn.binary_remote /\ ~tn'.binary_remote
       \/ tn.binary_local /\ ~tn'.binary_local

(* C30: during an external relay, a peer negotiation that ends BINARY mode *)
(* in either direction (WONT BINARY, DONT BINARY) puts the relay in DRAIN  *)
(* mode in the loop iteration whose read carried it.                       *)
C30_BinaryEndEntersDrain ==
    [][ RelayReadEndsBinary => sup'.binary_mode_ended ]_vars


(* C31: whenever a packet is received and processed successfully without a *)
(* NAK being emitted, the consecutive-NAK and consecutive-timeout counters *)
(* are both 0 afterwards, at every stage of the transfer (kermit() reports *)
(* r.sofar = 0 until file data has moved: S-init, file header).            *)
C31_SuccessResetsCounters ==
    kctx.result = "RUNNING" =>
        \A ev \in KermitSockEvents, k \in KermitOutcomes :
            LET p == KermitLoopPass(kctx, pending_data, ev, k)
            IN  (p.rx.ret > 0 /\ k.status = "X_OK" /\ ~k.nak) =>
                    /\ p.ctx.consecutive_naks = 0
                    /\ p.ctx.consecutive_timeouts = 0


(* rxd handed the engine a NAK packet (LEN SEQ TYPE ... with SOH removed) *)
IsNak(buf) == Len(buf) >= 3 /\ buf[3] = PKT_NAK

(* what kermit(K_RUN) reports to the send loop for the packet it was       *)
(* given: the sender transmits S, F, D, Z and B packets and awaits the     *)
(* matching ACK of each, so after a NAK of the peer the packet it queues   *)
(* is the packet in flight again, not a NAK, and the transfer is not done  *)
SenderOutcomes(buf) ==
    IF IsNak(buf) THEN { k \in KermitOutcomes : ~k.nak /\ k.status # "X_DONE" }
    ELSE KermitOutcomes

(* C32: on the send path each NAK packet received from the peer adds one   *)
(* to the consecutive-NAK counter, so that a peer answering every packet   *)
(* with NAK makes the sender abort at the NAK cap.                         *)
C32_ReceivedNakCounted ==
    kctx.result = "RUNNING" =>
        \A ev \in KermitSockEvents :
            LET got == otelnet_kermit_rxd(pending_data, ev, P_PKTLEN)
            IN  (kctx.elapsed <= KERMIT_TRANSFER_TIMEOUT /\ got.ret > 0 /\ IsNak(got.buf)) =>
                    \A k \in SenderOutcomes(got.buf) :
                        KermitLoopPass(kctx, pending_data, ev, k).ctx.consecutive_naks
                            = kctx.consecutive_naks + 1


(* the whole result of the codec operation op on bytes, given all the room *)
(* it needs                                                                *)
WholeResult(op, bytes, iac_state) ==
    IF op = "unescape"
    THEN telnet_unescape_iac(bytes, Len(bytes), iac_state).out
    ELSE telnet_escape_iac(bytes, 2 * Len(bytes)).out

(* does the operation op, having returned ret for a non-empty input,       *)
(* report an error to its caller                                           *)
ReportsError(op, ret) ==
    CASE op = "prepare" -> ret # SUCCESS
      [] op = "binary_escape" -> ret = 0
      [] OTHER -> ret < 0

(* C33: an escape or unescape operation whose output buffer is too small   *)
(* for its result reports an error: no operation of the escape codec       *)
(* returns success after emitting only a part of the result.               *)
C33_NoSilentTruncation ==
    [][ LET op == Last(codec'.calls)
        IN  codec'.bytes # WholeResult(op, codec.bytes, codec.iac_state)
                => ReportsError(op, codec'.ret) ]_vars


(* C34: whenever no transfer is in progress, after the supervisor has left *)
(* a transfer of any protocol, the Pending Bytes queue is empty: nothing   *)
(* saved by one transfer's negotiation drain is left for a later transfer. *)
C34_PendingEmptyOutsideTransfer ==
    (pc \in {"returned", "session"} /\ mode # "TRANSFER") => pending_data = << >>


(* C35: when the socket is handed to the Kermit engine at the end of the   *)
(* negotiation drain, and when the session loop resumes after a transfer,  *)
(* the Framer is in state DATA with an empty subnegotiation buffer: no     *)
(* partly parsed command straddles a hand-off.                             *)
C35_FramerIdleAtHandOff ==
    (pc \in {"kermit", "returned"}) => (tn.state = "DATA" /\ tn.sb_buffer = << >>)


(* C36: after the supervisor has left a transfer, Kermit or external, the  *)
(* transfer state is fully reset: not active, protocol NONE, no file name, *)
(* not auto-triggered.                                                     *)
C36_TransferStateReset ==
    (pc = "returned" /\ sup.entered) =>
        /\ ~transfer.active
        /\ transfer.protocol = "NONE"
        /\ transfer.filename = ""
        /\ ~transfer.auto_triggered


(* C37: the external relay loses no data: of every iteration that goes on, *)
(* all clean bytes the Framer made of the socket read have been taken by   *)
(* the child's stdin pipe and all escaped bytes of the child's output by   *)
(* the socket, also when a write is short or would block.                  *)
C37_RelayLosesNothing ==
    [][ (pc = "relay" /\ pc' = "relay" /\ RelayStepped) =>
            /\ sup'.child_taken = telnet_process_input(tn, sup'.sock_read, 2 * BUFFER_SIZE).out
            /\ sup'.sock_taken = (IF sup'.pipe_read # << >>
                                  THEN telnet_prepare_output(sup'.pipe_read) ELSE << >>) ]_vars


(* C38: a cancellation requested before a transfer begins does not cancel  *)
(* that transfer: when the engine or the relay starts, the cancellation    *)
(* flag is set only if a SIGINT / SIGTERM has arrived since the supervisor *)
(* was entered for this transfer.                                          *)
C38_StaleCancelIgnored ==
    [][ (pc = "dispatch" /\ pc' \in {"kermit", "relay"} /\ g_transfer_cancel_requested')
            => sup'.cancel_in_call ]_vars


(* ======================================================================= *)
(* The order of the exit steps of otelnet_execute_transfer                 *)
(* ======================================================================= *)
DetectorsFresh ==
    /\ zmodem_detector = zmodem_detector_init
    /\ xmodem_detector = xmodem_detector_init
    /\ ymodem_detector = ymodem_detector_init

OptionsRestored == tn.fd_open => telnet_save_state(tn) = transfer.saved

(* C39 as stated: the options are restored from the snapshot before the    *)
(* detectors are re-initialized, so once the detectors have been           *)
(* re-initialized by the exit sequence the options equal the snapshot      *)
C39_RestoreBeforeDetectors ==
    (pc = "restore" /\ sup.entered) => OptionsRestored

(* C39: the exit steps run in the order detectors re-initialized, options  *)
(* restored from the snapshot, socket flushed (at most ten reads),         *)
(* cancellation flag cleared, mode = CLIENT: the options are restored only *)
(* when the detectors are fresh, the flush runs only when the options are  *)
(* restored, and the flag is cleared and the mode leaves TRANSFER only     *)
(* after the flush, the mode not before the flag                           *)
C39_ExitOrder ==
    /\ [](/\ pc = "restore" => DetectorsFresh /\ mode = "TRANSFER"
          /\ pc = "flush" => DetectorsFresh /\ OptionsRestored /\ mode = "TRANSFER"
          /\ pc = "leave" => /\ DetectorsFresh /\ OptionsRestored
                             /\ sup.flush_attempts <= MAX_FLUSH_ATTEMPTS
                             /\ mode = "TRANSFER")
    /\ [][ /\ (mode = "TRANSFER" /\ mode' # "TRANSFER")
              => pc = "leave" /\ ~g_transfer_cancel_requested'
           /\ (g_transfer_cancel_requested /\ ~g_transfer_cancel_requested')
              => pc = "leave"
           /\ (pc \in {"exit", "restore"} /\ pc' # pc) => sup'.flushed = << >> ]_vars

(* the detectors have been re-initialized while the options still differ   *)
(* from the snapshot, on an open connection                                *)
C39_Witness ==
    /\ pc = "restore"
    /\ sup.entered
    /\ tn.fd_open
    /\ DetectorsFresh
    /\ telnet_save_state(tn) # transfer.saved


(* ======================================================================= *)
(* The buffers of a session whose buffers are nearly full                  *)
(* ======================================================================= *)
CapSlack == 5
MaxCapSteps == 3

Fill(n) == [i \in 1..n |-> 97]

(* reads given to the Framer, and the sizes of the caller's output buffer  *)
CapChunks ==
    { <<97>>, <<97, 97, 97>>, <<TELNET_IAC, TELNET_IAC>>, <<TELNET_IAC, TELNET_SE>>,
      <<CR, LF>>, <<CR, 97>>, <<97, TELNET_IAC>> }

CapRooms == {0, 1, 2, BUFFER_SIZE}

CapBytes == {97, 67, XMODEM_NAK}

(* telnet_t after the peer has sent IAC SB and n bytes 97 of payload: the   *)
(* Framer is in state SB and the scratch buffer holds the payload          *)
InSubneg(t, n) ==
    [t EXCEPT !.state = "SB", !.sb_buffer = Fill(n)]

(* a detector after n clean bytes 97, none of them a trigger: its window    *)
(* holds them and its counters are as after init                           *)
Windowed(d, n) == [d EXCEPT !.buffer = Fill(n)]

(* a session in which the peer has sent IAC SB and all but k bytes of a    *)
(* scratch buffer of payload, the detectors have seen all but k bytes of   *)
(* their windows, and earlier transfers have left pending_data k bytes     *)
(* short of its capacity                                                   *)
CapInit ==
    /\ \E k \in 0..CapSlack :
          /\ tn = InSubneg(telnet_connect(telnet_init).tn, BUFFER_SIZE - k)
          /\ pending_data = Fill(BUFFER_SIZE - k)
          /\ zmodem_detector =
                 Windowed(zmodem_detector_init, ZMODEM_DETECT_BUFFER_SIZE - k)
          /\ xmodem_detector =
                 Windowed(xmodem_detector_init, XMODEM_YMODEM_DETECT_BUFFER_SIZE - k)
          /\ ymodem_detector =
                 Windowed(ymodem_detector_init, XMODEM_YMODEM_DETECT_BUFFER_SIZE - k)
    /\ negIdle
    /\ frmIdle
    /\ kctx = [kermit_ctx_init EXCEPT !.result = "NONE"]
    /\ rx = rxNone
    /\ rawIn = << >>
    /\ rawIAC = FALSE
    /\ peerLeftBinary = FALSE
    /\ mode = "CLIENT"
    /\ transfer = transfer_init
    /\ g_transfer_cancel_requested = FALSE
    /\ g_running_local = TRUE
    /\ pc = "session"
    /\ sup = sup_none
    /\ wire = << >>
    /\ early = << >>
    /\ fromPending = << >>

(* one call of telnet_process_input with an output buffer of room bytes;   *)
(* codec keeps the read, the clean bytes of the call and the room          *)
CapFrame ==
    \E chunk \in CapChunks, room \in CapRooms :
        /\ watch.fed < MaxCapSteps
        /\ LET r == telnet_process_input(tn, chunk, room)
           IN  /\ tn' = r.tn
               /\ codec' = [codec_none EXCEPT !.input = chunk, !.bytes = r.out,
                                              !.output_max = room,
                                              !.calls = <<"process_input">>]
        /\ watch' = [watch EXCEPT !.fed = @ + 1]
        /\ UNCHANGED <<negLog, items, fio, tn0, stream, clean, events>>
        /\ UNCHANGED kermitVars
        /\ UNCHANGED supVars

(* one read of the drain loop of a transfer *)
CapDrain ==
    \E raw \in DrainReads :
        /\ watch.fed < MaxCapSteps
        /\ LET d == DrainRead(tn, pending_data, raw, FALSE)
           IN  /\ tn' = d.tn
               /\ pending_data' = d.pending
        /\ watch' = [watch EXCEPT !.fed = @ + 1]
        /\ UNCHANGED <<negLog, codec, items, fio, tn0, stream, clean, events>>
        /\ UNCHANGED <<kctx, rx, rawIn, rawIAC, peerLeftBinary>>
        /\ UNCHANGED <<mode, transfer, g_transfer_cancel_requested, g_running_local,
                       pc, sup, wire, early, fromPending>>
        /\ UNCHANGED detVars

(* one clean byte given to the three detectors *)
CapDetect ==
    \E c \in CapBytes :
        /\ watch.fed < MaxCapSteps
        /\ zmodem_detector' = zmodem_detect_trigger(zmodem_detector, <<c>>).det
        /\ xmodem_detector' = xmodem_detect_trigger(xmodem_detector, <<c>>, watch.now).det
        /\ ymodem_detector' = ymodem_detect_trigger(ymodem_detector, <<c>>, watch.now).det
        /\ watch' = [watch EXCEPT !.fed = @ + 1]
        /\ UNCHANGED <<tn, negLog, codec, items, fio, tn0, stream, clean, events>>
        /\ UNCHANGED kermitVars
        /\ UNCHANGED <<mode, transfer, g_transfer_cancel_requested, g_running_local,
                       pc, sup, wire, early, fromPending>>

CapNext == CapFrame \/ CapDrain \/ CapDetect

SpecCapacity == CapInit /\ [][CapNext]_vars

(* C40: every buffer stays within its capacity: the subnegotiation scratch *)
(* buffer and pending_data hold at most BUFFER_SIZE bytes, the ZMODEM      *)
(* window at most 32, the XMODEM and YMODEM windows at most 64, and the    *)
(* clean bytes of a Framer call are no more than the caller's buffer holds *)
C40_BuffersWithinCapacity ==
    /\ Len(tn.sb_buffer) <= BUFFER_SIZE
    /\ Len(pending_data) <= BUFFER_SIZE
    /\ Len(zmodem_detector.buffer) <= ZMODEM_DETECT_BUFFER_SIZE
    /\ Len(xmodem_detector.buffer) <= XMODEM_YMODEM_DETECT_BUFFER_SIZE
    /\ Len(ymodem_detector.buffer) <= XMODEM_YMODEM_DETECT_BUFFER_SIZE
    /\ Len(codec.bytes) <= codec.output_max

(* the Framer has been given three more bytes of subnegotiation payload    *)
(* with the scratch buffer full or filling up, the detectors bytes with    *)
(* their windows full, and all of these buffers and pending_data are full  *)
C40_Witness ==
    /\ Len(tn.sb_buffer) = BUFFER_SIZE
    /\ tn.state = "SB"
    /\ codec.input = <<97, 97, 97>>
    /\ Len(pending_data) = BUFFER_SIZE
    /\ Len(zmodem_detector.buffer) = ZMODEM_DETECT_BUFFER_SIZE
    /\ Len(xmodem_detector.buffer) = XMODEM_YMODEM_DETECT_BUFFER_SIZE
    /\ Len(ymodem_detector.buffer) = XMODEM_YMODEM_DETECT_BUFFER_SIZE
    /\ watch.fed = MaxCapSteps

(* the drain has met an early Kermit packet with pending_data full *)
CapPendingRefused ==
    /\ tn.state = "SEENCR"
    /\ Len(pending_data) = BUFFER_SIZE

(* a Framer call has dropped clean bytes that its output buffer could not  *)
(* hold                                                                    *)
CapOutputFull ==
    /\ codec.input = <<97, 97, 97>>
    /\ codec.output_max \in {1, 2}
    /\ Len(codec.bytes) = codec.output_max

====
